---- MODULE Spec2Model ----
(***************************************************************************)
(* Model of the eclipse-invariant-swap REST server (src/unnamed/part_000): *)
(* token registry, account provisioner, pool discovery and the             *)
(* performTokenSwap routing loop, together with the app.ts provisioner.    *)
(*                                                                         *)
(* The ledger (RPC connection and Invariant market) is the environment:    *)
(* every call to it is one step whose outcome is chosen nondeterministically*)
(* among the outcomes the call can have (result, non-Ok status, thrown     *)
(* error).  `calls` is the history of the calls issued, `logs` the lines   *)
(* written with console.log.                                               *)
(*                                                                         *)
(* Units: request amounts and slippage percentages are held in tenths, so  *)
(* that the default slippage 0.5 and an amount such as 0.5 are integers.   *)
(***************************************************************************)
EXTENDS Integers, Sequences, FiniteSets, TLC

VARIABLES
    ledgerPools,  \* the ledger's pool enumeration (market.getAllPools())
    accounts,     \* token accounts existing on the ledger
    route,        \* the endpoint being served
    pc,           \* position of the handler
    req,          \* req.body of the request being handled
    keypair,      \* const keypair of performTokenSwap (signer of the request)
    fromTokenInfo,\* const fromTokenInfo
    toTokenInfo,  \* const toTokenInfo
    swapAmount,   \* const swapAmount
    pools,        \* const pools: result of findBestPoolForPair
    i,            \* loop index, 1-based (JavaScript i + 1)
    iter,         \* consts of the current loop iteration (pool, pair, xToY, ...)
    simulation,   \* const simulation of the current loop iteration
    ata,          \* frame of the running account provisioner call
    rets,         \* values returned by completed provisioner calls
    calls,        \* history of ledger / network calls
    logs,         \* console.log lines of the candidate loop
    resp,         \* HTTP response ([status |-> 0] while none was sent)
    self,         \* the request whose handler is running
    parked,       \* the variables of the other request, suspended at an await
    switches      \* number of times the event loop went from one request to the other

vars == <<ledgerPools, accounts, route, pc, req, keypair, fromTokenInfo, toTokenInfo,
          swapAmount, pools, i, iter, simulation, ata, rets, calls, logs, resp,
          self, parked, switches>>

\* ------------------------------------------------------------------ bounds
MaxPools == 3          \* longest pool enumeration of the ledger
MaxPrice == 2          \* simulate predicts a priceAfterSwap in 1..MaxPrice
MaxSwitches == 3       \* most changes of the running request in one behaviour

\* --------------------------------------------------------------- constants
TICK_CROSSES_PER_IX_NATIVE_TOKEN == 40
DefaultSlippage == 5   \* slippage = 0.5, in tenths of a percent
MaxSlippage == 500     \* slippage > 50, in tenths of a percent

None == "none"
Undefined == "undefined"

\* Mints, by the first characters of their base58 string.
NATIVE_MINT == "So11"
USDT_MINT == "CEBP"
USDC_MINT == "AKEW"
WBTC_MINT == "9n4n"
AVAX_MINT == "KMNo"
MATIC_MINT == "Ga2A"
SOL_MINT == "BeRU"     \* swap.ts: wrapped SOL
Mints == {NATIVE_MINT, USDT_MINT, USDC_MINT, WBTC_MINT, AVAX_MINT, MATIC_MINT}

TOKEN_PROGRAM_ID == "Tokenkeg"
TOKEN_2022_PROGRAM_ID == "TokenzQd"

\* PublicKey.toString() order of the mints: JavaScript compares the base58
\* strings by code unit ('9' < 'A' < 'B' < 'C' < 'G' < 'K' < 'S').
Base58Rank(m) ==
    CASE m = WBTC_MINT -> 1
      [] m = USDC_MINT -> 2
      [] m = SOL_MINT -> 3
      [] m = USDT_MINT -> 4
      [] m = MATIC_MINT -> 5
      [] m = AVAX_MINT -> 6
      [] m = NATIVE_MINT -> 7

TOKEN_REGISTRY ==
    [ETH   |-> [mint |-> NATIVE_MINT, symbol |-> "ETH", decimals |-> 9,
                tokenProgram |-> TOKEN_PROGRAM_ID],
     SOL   |-> [mint |-> NATIVE_MINT, symbol |-> "SOL", decimals |-> 9,
                tokenProgram |-> TOKEN_PROGRAM_ID],
     USDT  |-> [mint |-> USDT_MINT, symbol |-> "USDT", decimals |-> 6,
                tokenProgram |-> TOKEN_2022_PROGRAM_ID],
     USDC  |-> [mint |-> USDC_MINT, symbol |-> "USDC", decimals |-> 6,
                tokenProgram |-> TOKEN_2022_PROGRAM_ID],
     WBTC  |-> [mint |-> WBTC_MINT, symbol |-> "WBTC", decimals |-> 8,
                tokenProgram |-> TOKEN_2022_PROGRAM_ID],
     WETH  |-> [mint |-> NATIVE_MINT, symbol |-> "WETH", decimals |-> 9,
                tokenProgram |-> TOKEN_PROGRAM_ID],
     AVAX  |-> [mint |-> AVAX_MINT, symbol |-> "AVAX", decimals |-> 9,
                tokenProgram |-> TOKEN_2022_PROGRAM_ID],
     MATIC |-> [mint |-> MATIC_MINT, symbol |-> "MATIC", decimals |-> 9,
                tokenProgram |-> TOKEN_2022_PROGRAM_ID]]

\* String.prototype.toUpperCase on the symbols requests are drawn from.
ToUpperCase(s) ==
    CASE s = "eth" -> "ETH"
      [] s = "usdt" -> "USDT"
      [] s = "usdc" -> "USDC"
      [] s = "sol" -> "SOL"
      [] s = "xyz" -> "XYZ"
      [] OTHER -> s

NoToken == [mint |-> None, symbol |-> None, decimals |-> 0, tokenProgram |-> None]
NoKeypair == [publicKey |-> None, secret |-> None]

\* mutant of getTokenInfo: the lookup is indexed by identity, a symbol
\* resolves to the first entry of the registry that has its mint
getTokenInfo_byMint(symbol) ==
    IF ToUpperCase(symbol) \in DOMAIN TOKEN_REGISTRY
    THEN LET mint == TOKEN_REGISTRY[ToUpperCase(symbol)].mint
             first == IF mint = NATIVE_MINT THEN "ETH" ELSE ToUpperCase(symbol)
         IN TOKEN_REGISTRY[first]
    ELSE NoToken

\* getTokenInfo: the registry entry, or NoToken where the code throws
\* `Token ${symbol} not supported`.
getTokenInfo(symbol) ==
    IF ToUpperCase(symbol) \in DOMAIN TOKEN_REGISTRY
    THEN TOKEN_REGISTRY[ToUpperCase(symbol)]
    ELSE NoToken

\* createKeypairFromPrivateKey: the keypair of a well-formed key, or NoKeypair
\* where the code throws 'Invalid private key format'.
createKeypairFromPrivateKey(privateKey) ==
    CASE privateKey = "keyA" -> [publicKey |-> "ownerA", secret |-> "keyA"]
      [] privateKey = "keyB" -> [publicKey |-> "ownerB", secret |-> "keyB"]
      [] OTHER -> NoKeypair

\* getAssociatedTokenAddressSync: the address is a deterministic, injective
\* function of (mint, owner, token program).
getAssociatedTokenAddressSync(mint, owner, tokenProgram) ==
    <<mint, owner, tokenProgram>>

Pow10(n) ==
    CASE n = 6 -> 1000000
      [] n = 8 -> 100000000
      [] n = 9 -> 1000000000

\* new BN(amount): bn.js keeps the integer part of a JavaScript number
\* (amount is in tenths here).
BN(amount) == IF amount < 0 THEN -((-amount) \div 10) ELSE amount \div 10

\* swapAmount = new BN(amount).mul(new BN(10).pow(new BN(decimals)))
ToSmallestUnits(amount, decimals) == BN(amount) * Pow10(decimals)

\* new Pair(first, second, feeTier): tokenX is the token whose base58 string
\* is the smaller one.
Pair(first, second, feeTier) ==
    IF Base58Rank(first) < Base58Rank(second)
    THEN [tokenX |-> first, tokenY |-> second, feeTier |-> feeTier]
    ELSE [tokenX |-> second, tokenY |-> first, feeTier |-> feeTier]

\* pair.getAddress(programId): the pool address is a deterministic, injective
\* function of (tokenX, tokenY, fee, tickSpacing).
getAddress(pair) ==
    <<pair.tokenX, pair.tokenY, pair.feeTier.fee, pair.feeTier.tickSpacing>>

\* feeTier = { fee: pool.fee, tickSpacing: pool.tickSpacing || 1 }; an absent
\* tickSpacing is held as 0.
FeeTierOf(pool) ==
    [fee |-> pool.fee,
     tickSpacing |-> IF pool.tickSpacing = 0 THEN 1 ELSE pool.tickSpacing]

\* ---------------------------------------------------------- pool discovery
\* mutant of MatchesPair: a pool matches when it holds one of the two tokens
MatchesPair_anyToken(pool, tokenA, tokenB) ==
    \/ pool.tokenX \in {tokenA, tokenB}
    \/ pool.tokenY \in {tokenA, tokenB}

\* mutant of MatchesPair: only the order (tokenA, tokenB) is recognised
MatchesPair_oneOrder(pool, tokenA, tokenB) ==
    pool.tokenX = tokenA /\ pool.tokenY = tokenB

MatchesPair(pool, tokenA, tokenB) ==
    \/ (pool.tokenX = tokenA /\ pool.tokenY = tokenB)
    \/ (pool.tokenX = tokenB /\ pool.tokenY = tokenA)

\* allPools.filter(...): the matching pools, in enumeration order.
FilterPools(allPools, tokenA, tokenB) ==
    SelectSeq(allPools, LAMBDA pool : MatchesPair(pool, tokenA, tokenB))

\* a.fee.cmp(b.fee)
FeeCmp(a, b) == IF a.fee < b.fee THEN -1 ELSE IF a.fee > b.fee THEN 1 ELSE 0

\* Array.prototype.sort with FeeCmp is a stable sort: an element is placed
\* after every element already placed that does not compare greater.
RECURSIVE InsertByFee(_, _)
InsertByFee(sorted, pool) ==
    IF sorted = <<>> THEN <<pool>>
    ELSE IF FeeCmp(Head(sorted), pool) <= 0
         THEN <<Head(sorted)>> \o InsertByFee(Tail(sorted), pool)
         ELSE <<pool>> \o sorted

RECURSIVE InsertBeforeEqualFee(_, _)
InsertBeforeEqualFee(sorted, pool) ==
    IF sorted = <<>> THEN <<pool>>
    ELSE IF FeeCmp(Head(sorted), pool) < 0
         THEN <<Head(sorted)>> \o InsertBeforeEqualFee(Tail(sorted), pool)
         ELSE <<pool>> \o sorted

RECURSIVE SortByFeeFrom(_, _)
SortByFeeFrom(sorted, rest) ==
    IF rest = <<>> THEN sorted
    ELSE SortByFeeFrom(InsertByFee(sorted, Head(rest)), Tail(rest))

RECURSIVE UnstableSortByFeeFrom(_, _)
UnstableSortByFeeFrom(sorted, rest) ==
    IF rest = <<>> THEN sorted
    ELSE UnstableSortByFeeFrom(InsertBeforeEqualFee(sorted, Head(rest)), Tail(rest))

\* mutant of SortByFee: a sort that is not stable
SortByFee_unstable(relevantPools) == UnstableSortByFeeFrom(<<>>, relevantPools)

\* relevantPools.sort((a, b) => a.fee.cmp(b.fee))
SortByFee(relevantPools) == SortByFeeFrom(<<>>, relevantPools)

\* mutant of findBestPoolForPair: the candidates of the previous request are
\* kept and returned again
findBestPoolForPair_cached(allPools, tokenA, tokenB) ==
    IF parked.pc # None /\ parked.pools # <<>>
    THEN parked.pools
    ELSE SortByFee(FilterPools(allPools, tokenA, tokenB))

\* findBestPoolForPair, given the enumeration getAllPools returned
findBestPoolForPair(allPools, tokenA, tokenB) ==
    SortByFee(FilterPools(allPools, tokenA, tokenB))

\* --------------------------------------------------------- request inputs
Symbols == {"ETH", "eth", "USDT", "XYZ", ""}
Amounts == {-10, 0, 5, 10}
Slippages == {<<>>, <<-10>>, <<0>>, <<500>>, <<750>>}
PrivateKeys == {"keyA", "bad", ""}

Bodies ==
    [fromToken : Symbols, toToken : Symbols, amount : Amounts,
     slippage : Slippages, privateKey : PrivateKeys]

NoBody ==
    [fromToken |-> "", toToken |-> "", amount |-> 0, slippage |-> <<>>,
     privateKey |-> ""]

\* const { ..., slippage = 0.5, ... } = req.body
SlippageOf(body) ==
    IF body.slippage = <<>> THEN DefaultSlippage ELSE body.slippage[1]

\* mutant of ValidationError: the slippage range is not checked
ValidationError_noSlippageCheck(body) ==
    IF body.fromToken = "" \/ body.toToken = "" \/ body.amount = 0
       \/ body.privateKey = ""
    THEN "fromToken, toToken, amount, and privateKey are required"
    ELSE IF ToUpperCase(body.fromToken) = ToUpperCase(body.toToken)
    THEN "Cannot swap the same token"
    ELSE IF body.amount <= 0
    THEN "Amount must be greater than 0"
    ELSE None

\* The validation of POST /api/swap: the error of the first check that
\* rejects the body, or None when the body is accepted.
ValidationError(body) ==
    IF body.fromToken = "" \/ body.toToken = "" \/ body.amount = 0
       \/ body.privateKey = ""
    THEN "fromToken, toToken, amount, and privateKey are required"
    ELSE IF ToUpperCase(body.fromToken) = ToUpperCase(body.toToken)
    THEN "Cannot swap the same token"
    ELSE IF body.amount <= 0
    THEN "Amount must be greater than 0"
    ELSE IF SlippageOf(body) < 0 \/ SlippageOf(body) > MaxSlippage
    THEN "Slippage must be between 0 and 50 percent"
    ELSE None

\* ------------------------------------------------------------ ledger state
\* Pools the ledger may hold.  The ledger stores a pool under its canonical
\* token order.
PoolUniverse ==
    { [tokenX |-> USDT_MINT, tokenY |-> NATIVE_MINT, fee |-> 100000000, tickSpacing |-> 1],
      [tokenX |-> USDT_MINT, tokenY |-> NATIVE_MINT, fee |-> 100000000, tickSpacing |-> 10],
      [tokenX |-> USDT_MINT, tokenY |-> NATIVE_MINT, fee |-> 500000000, tickSpacing |-> 0],
      [tokenX |-> USDC_MINT, tokenY |-> NATIVE_MINT, fee |-> 100000000, tickSpacing |-> 1] }

IsInjective(seq) ==
    \A a, b \in 1..Len(seq) : seq[a] = seq[b] => a = b

\* Enumerations of at most MaxPools distinct pools.
Enumerations ==
    UNION { { seq \in [1..n -> PoolUniverse] : IsInjective(seq) } : n \in 0..MaxPools }

Owners == {"ownerA", "ownerB"}

\* Token accounts of owner A that a request may find on the ledger.
AccountUniverse ==
    { getAssociatedTokenAddressSync(NATIVE_MINT, "ownerA", TOKEN_PROGRAM_ID),
      getAssociatedTokenAddressSync(USDT_MINT, "ownerA", TOKEN_2022_PROGRAM_ID) }

Prices == 1..MaxPrice
NonOkStatuses == {"TooLargeGap", "SwapStepLimitReached"}

NoAta == [mint |-> None, payer |-> None, tokenProgram |-> None,
          address |-> None, fn |-> None, ret |-> None]
NoIter == [pool |-> None]
NoSimulation == [status |-> None]
NoResp == [status |-> 0]
NoParked == [pc |-> None]

Init ==
    /\ ledgerPools \in Enumerations
    /\ accounts \in SUBSET AccountUniverse
    /\ route = None
    /\ pc = "idle"
    /\ req = NoBody
    /\ keypair = NoKeypair
    /\ fromTokenInfo = NoToken
    /\ toTokenInfo = NoToken
    /\ swapAmount = 0
    /\ pools = <<>>
    /\ i = 0
    /\ iter = NoIter
    /\ simulation = NoSimulation
    /\ ata = NoAta
    /\ rets = <<>>
    /\ calls = <<>>
    /\ logs = <<>>
    /\ resp = NoResp
    /\ self = 1
    /\ parked = NoParked
    /\ switches = 0

\* ------------------------------------------------------------ the handlers
reqVars == <<route, req, keypair, fromTokenInfo, toTokenInfo, swapAmount>>
loopVars == <<pools, i, iter, simulation>>

\* res.status(status).json({ success: false, error })
ErrorResponse(status, error) ==
    [status |-> status, success |-> FALSE, error |-> error]

\* POST /api/swap up to the first await of performTokenSwap: validation, then
\* createKeypairFromPrivateKey.
PostSwapFrom(bodies) ==
    /\ pc = "idle"
    /\ route' = "POST /api/swap"
    /\ \E body \in bodies :
        /\ req' = body
        /\ IF ValidationError(body) # None
           THEN /\ resp' = ErrorResponse(400, ValidationError(body))
                /\ pc' = "done"
                /\ keypair' = keypair
           ELSE IF createKeypairFromPrivateKey(body.privateKey) = NoKeypair
           THEN /\ resp' = ErrorResponse(500, "Invalid private key format")
                /\ pc' = "done"
                /\ keypair' = keypair
           ELSE /\ keypair' = createKeypairFromPrivateKey(body.privateKey)
                /\ pc' = "initializeMarket"
                /\ resp' = resp
    /\ UNCHANGED <<ledgerPools, self, parked, switches, accounts, fromTokenInfo, toTokenInfo, swapAmount,
                   loopVars, ata, rets, calls, logs>>

PostSwap == PostSwapFrom(Bodies)

\* initializeMarket: Market.build over the connection, which may fail.
InitializeMarket ==
    /\ pc = "initializeMarket"
    /\ \E built \in BOOLEAN :
        /\ calls' = Append(calls, [rid |-> self, op |-> "Market.build", ok |-> built])
        /\ IF built
           THEN pc' = "getTokenInfo" /\ resp' = resp
           ELSE /\ resp' = ErrorResponse(500, "Market initialization failed")
                /\ pc' = "done"
    /\ UNCHANGED <<ledgerPools, self, parked, switches, accounts, reqVars, loopVars, ata, rets, logs>>

\* getTokenInfo(fromToken), getTokenInfo(toToken) and the swapAmount.
ResolveTokens ==
    /\ pc = "getTokenInfo"
    /\ IF getTokenInfo(req.fromToken) = NoToken \/ getTokenInfo(req.toToken) = NoToken
       THEN /\ resp' = ErrorResponse(500, "Token not supported")
            /\ pc' = "done"
            /\ UNCHANGED <<fromTokenInfo, toTokenInfo, swapAmount>>
       ELSE /\ fromTokenInfo' = getTokenInfo(req.fromToken)
            /\ toTokenInfo' = getTokenInfo(req.toToken)
            /\ swapAmount' = ToSmallestUnits(req.amount, fromTokenInfo'.decimals)
            /\ pc' = "findBestPoolForPair"
            /\ resp' = resp
    /\ UNCHANGED <<ledgerPools, self, parked, switches, accounts, route, req, keypair, loopVars, ata,
                   rets, calls, logs>>

\* mutant of NoPoolsFound: the emptiness check is missing
NoPoolsFound_unchecked(found) == FALSE

\* if (pools.length === 0)
NoPoolsFound(found) == Len(found) = 0

\* mutant of FindBestPoolForPair: the from-token account is checked before
\* the pools are listed
FindBestPoolForPair_afterAccountCheck ==
    /\ pc = "findBestPoolForPair"
    /\ calls' = calls \o
          << [rid |-> self, op |-> "getAccount", inv |-> 1,
              address |-> getAssociatedTokenAddressSync(fromTokenInfo.mint, keypair.publicKey,
                                                        fromTokenInfo.tokenProgram),
              answered |-> TRUE, found |-> FALSE],
             [rid |-> self, op |-> "getAllPools", ok |-> TRUE] >>
    /\ pools' = findBestPoolForPair(ledgerPools, fromTokenInfo.mint, toTokenInfo.mint)
    /\ IF NoPoolsFound(pools')
       THEN /\ resp' = ErrorResponse(500, "No liquidity pools found")
            /\ pc' = "done"
       ELSE /\ pc' = "ensureFrom"
            /\ resp' = resp
    /\ UNCHANGED <<ledgerPools, self, parked, switches, accounts, reqVars, i, iter, simulation, ata,
                   rets, logs>>

\* findBestPoolForPair and the check pools.length === 0.
FindBestPoolForPair ==
    /\ pc = "findBestPoolForPair"
    /\ \E answered \in BOOLEAN :
        /\ calls' = Append(calls, [rid |-> self, op |-> "getAllPools", ok |-> answered])
        /\ IF ~answered
           THEN /\ resp' = ErrorResponse(500, "getAllPools failed")
                /\ pc' = "done"
                /\ pools' = pools
           ELSE /\ pools' = findBestPoolForPair(ledgerPools, fromTokenInfo.mint,
                                                toTokenInfo.mint)
                /\ IF NoPoolsFound(pools')
                   THEN /\ resp' = ErrorResponse(500, "No liquidity pools found")
                        /\ pc' = "done"
                   ELSE /\ pc' = "ensureFrom"
                        /\ resp' = resp
    /\ UNCHANGED <<ledgerPools, self, parked, switches, accounts, reqVars, i, iter, simulation, ata,
                   rets, logs>>

\* The frame of createTokenAccountIfNeeded(mint, owner, keypair, tokenProgram).
ProvisionerFrame(mint, owner, payer, tokenProgram, fn, ret) ==
    [mint |-> mint, payer |-> payer, tokenProgram |-> tokenProgram,
     address |-> getAssociatedTokenAddressSync(mint, owner, tokenProgram),
     fn |-> fn, ret |-> ret]

\* createTokenAccountIfNeeded(fromTokenInfo.mint, ...) is called.
EnsureFromAccount ==
    /\ pc = "ensureFrom"
    /\ ata' = ProvisionerFrame(fromTokenInfo.mint, keypair.publicKey,
                               keypair.publicKey, fromTokenInfo.tokenProgram,
                               "createTokenAccountIfNeeded", "ensureTo")
    /\ pc' = "getAccount"
    /\ UNCHANGED <<ledgerPools, self, parked, switches, accounts, reqVars, loopVars, rets, calls, logs, resp>>

\* createTokenAccountIfNeeded(toTokenInfo.mint, ...) is called.
EnsureToAccount ==
    /\ pc = "ensureTo"
    /\ ata' = ProvisionerFrame(toTokenInfo.mint, keypair.publicKey,
                               keypair.publicKey, toTokenInfo.tokenProgram,
                               "createTokenAccountIfNeeded", "loop")
    /\ pc' = "getAccount"
    /\ UNCHANGED <<ledgerPools, self, parked, switches, accounts, reqVars, loopVars, rets, calls, logs, resp>>

\* What a provisioner call returns: createTokenAccountIfNeeded returns the
\* address, createAssociatedTokenAccount of app.ts has no return statement.
ProvisionerReturn(fn, address) ==
    [threw |-> FALSE,
     value |-> IF fn = "createTokenAccountIfNeeded" THEN address ELSE Undefined]

\* The call ends with the error of sendAndConfirmTransaction.
ProvisionerThrow == [threw |-> TRUE, value |-> None]

\* mutant of ObservedPresent: the existence check never finds the account
ObservedPresent_never(address, answered) == FALSE

\* getAccount resolves when the account exists and the RPC call answers; it
\* throws when the account is absent and when the call fails.
ObservedPresent(address, answered) == address \in accounts /\ answered

\* The try block of the provisioner: await getAccount(...).  Any error sends
\* the provisioner to its catch block.
GetAccount ==
    /\ pc = "getAccount"
    /\ \E answered \in BOOLEAN :
        /\ calls' = Append(calls, [rid |-> self, op |-> "getAccount", inv |-> Len(rets) + 1,
                                   address |-> ata.address, answered |-> answered,
                                   found |-> ObservedPresent(ata.address, answered)])
        /\ IF ObservedPresent(ata.address, answered)
           THEN /\ rets' = Append(rets, ProvisionerReturn(ata.fn, ata.address))
                /\ pc' = ata.ret
                /\ i' = IF ata.ret = "loop" THEN 1 ELSE i
           ELSE /\ pc' = "sendCreate"
                /\ UNCHANGED <<rets, i>>
    /\ UNCHANGED <<ledgerPools, self, parked, switches, accounts, reqVars, pools, iter, simulation, ata,
                   logs, resp>>

\* mutant of RejectedCreate: the rejection is swallowed and the caller goes on
RejectedCreate_swallowed ==
    /\ pc' = ata.ret
    /\ i' = IF ata.ret = "loop" THEN 1 ELSE i
    /\ resp' = resp

\* The error of sendAndConfirmTransaction leaves the provisioner.  In
\* performTokenSwap the call is outside the loop's try block, so the error
\* reaches the catch block of POST /api/swap.
RejectedCreate ==
    /\ i' = i
    /\ IF ata.ret = "again"
       THEN pc' = ata.ret /\ resp' = resp
       ELSE /\ pc' = "done"
            /\ resp' = ErrorResponse(500, "Transaction failed")

\* The catch block of the provisioner: sendAndConfirmTransaction of the
\* create instruction.  The ledger rejects the creation of an account that
\* exists and may reject any other one; a rejection is thrown to the caller.
SendCreate ==
    /\ pc = "sendCreate"
    /\ \E accepted \in BOOLEAN :
        LET created == accepted /\ ata.address \notin accounts IN
        /\ calls' = Append(calls, [rid |-> self, op |-> "createAccount", inv |-> Len(rets) + 1,
                                   address |-> ata.address, payer |-> ata.payer, ok |-> created])
        /\ IF created
           THEN /\ accounts' = accounts \cup {ata.address}
                /\ rets' = Append(rets, ProvisionerReturn(ata.fn, ata.address))
                /\ pc' = ata.ret
                /\ i' = IF ata.ret = "loop" THEN 1 ELSE i
                /\ resp' = resp
           ELSE /\ accounts' = accounts
                /\ rets' = Append(rets, ProvisionerThrow)
                /\ RejectedCreate
    /\ UNCHANGED <<ledgerPools, self, parked, switches, reqVars, pools, iter, simulation, ata, logs>>

\* mutant of XToY: the direction flag is hard-coded
XToY_hardcoded(pair, fromMint) == TRUE

\* const xToY = pair.tokenX.equals(fromTokenInfo.mint)
XToY(pair, fromMint) == pair.tokenX = fromMint

\* toDecimal(slippagePercent, 2): a decimal, here with denominator 1000 as
\* the percentage is held in tenths.
toDecimal(slippage) == [v |-> slippage, denominator |-> 1000]

\* The consts of one loop iteration, computed before swapSimulation is called.
IterationOf(pool) ==
    LET pair == Pair(pool.tokenX, pool.tokenY, FeeTierOf(pool)) IN
    [pool |-> pool,
     pair |-> pair,
     xToY |-> XToY(pair, fromTokenInfo.mint),
     accountX |-> getAssociatedTokenAddressSync(pair.tokenX, keypair.publicKey,
                    IF pair.tokenX = fromTokenInfo.mint
                    THEN fromTokenInfo.tokenProgram ELSE toTokenInfo.tokenProgram),
     accountY |-> getAssociatedTokenAddressSync(pair.tokenY, keypair.publicKey,
                    IF pair.tokenY = fromTokenInfo.mint
                    THEN fromTokenInfo.tokenProgram ELSE toTokenInfo.tokenProgram),
     poolAddress |-> getAddress(pair),
     slippage |-> toDecimal(SlippageOf(req))]

\* What swapSimulation may produce: a simulation with status Ok and a
\* predicted price, a simulation with another status, or a thrown error.
SimulationOutcomes ==
    { [status |-> "Ok", priceAfterSwap |-> p] : p \in Prices }
    \cup { [status |-> st, priceAfterSwap |-> 0] : st \in NonOkStatuses }
    \cup { [status |-> "throw", priceAfterSwap |-> 0] }

\* mutant of Continue: a failed candidate is tried a second time
Continue_retry ==
    /\ i' = IF Cardinality({k \in 1..Len(calls') : calls'[k].op = "swapSimulation"
                                                   /\ calls'[k].cand = i}) < 2
            THEN i ELSE i + 1
    /\ pc' = "loop"
    /\ resp' = resp

\* mutant of Continue: the accounts are ensured again before the next candidate
Continue_reensure ==
    /\ i' = i + 1
    /\ pc' = "ensureFrom"
    /\ resp' = resp

\* `continue`: the loop goes to its next index.
Continue ==
    /\ i' = i + 1
    /\ pc' = "loop"
    /\ resp' = resp

\* mutant of CatchInLoop: the error escapes the loop
CatchInLoop_rethrow(message) ==
    /\ logs' = logs
    /\ i' = i
    /\ pc' = "done"
    /\ resp' = ErrorResponse(500, message)

\* catch (error) { console.log(`Pool ${i + 1} failed:`, error.message); continue; }
CatchInLoop(message) ==
    /\ logs' = Append(logs, [pool |-> i, line |-> "failed", detail |-> message])
    /\ Continue

\* mutant of ProceedToSwap: the next candidate is simulated while this one
\* has not been executed
ProceedToSwap_fanOut ==
    /\ pc' = "loop"
    /\ i' = i + 1
    /\ UNCHANGED <<logs, resp>>

\* The simulation returned Ok: the iteration goes on to `await market.swap`.
ProceedToSwap ==
    /\ pc' = "swap"
    /\ UNCHANGED <<i, logs, resp>>

\* One iteration up to the end of `await swapSimulation(...)`, and the status
\* check that follows it.
Simulate ==
    /\ pc = "loop"
    /\ i <= Len(pools)
    /\ iter' = IterationOf(pools[i])
    /\ \E outcome \in SimulationOutcomes :
        /\ calls' = Append(calls,
              [rid |-> self, op |-> "swapSimulation", cand |-> i, xToY |-> iter'.xToY,
               byAmountIn |-> TRUE, amount |-> swapAmount,
               slippage |-> iter'.slippage, poolAddress |-> iter'.poolAddress,
               maxCrosses |-> TICK_CROSSES_PER_IX_NATIVE_TOKEN,
               status |-> outcome.status,
               priceAfterSwap |-> outcome.priceAfterSwap])
        /\ IF outcome.status = "throw"
           THEN /\ simulation' = simulation
                /\ CatchInLoop("swapSimulation error")
           ELSE /\ simulation' = outcome
                /\ IF outcome.status # "Ok"
                   THEN /\ logs' = Append(logs, [pool |-> i, line |-> "simulation failed",
                                                 detail |-> outcome.status])
                        /\ Continue
                   ELSE ProceedToSwap
    /\ UNCHANGED <<ledgerPools, self, parked, switches, accounts, reqVars, pools, ata, rets>>

\* mutant of EstimatedPriceAfterSwap: the price of the first simulation of
\* the request that returned Ok
EstimatedPriceAfterSwap_stale(sim) ==
    LET oks == SelectSeq(calls, LAMBDA c : c.op = "swapSimulation" /\ c.status = "Ok")
    IN oks[1].priceAfterSwap

\* estimatedPriceAfterSwap: simulation.priceAfterSwap
EstimatedPriceAfterSwap(sim) == sim.priceAfterSwap

\* mutant of PoolUsed: the first candidate is reported
PoolUsed_first(pool, poolAddress) ==
    [address |-> getAddress(Pair(pools[1].tokenX, pools[1].tokenY, FeeTierOf(pools[1]))),
     fee |-> pools[1].fee]

\* poolUsed: { address: poolAddress.toString(), fee: pool.fee.toString(), ... }
PoolUsed(pool, poolAddress) == [address |-> poolAddress, fee |-> pool.fee]

\* mutant of ReturnSuccess: the loop goes on after a successful execution
ReturnSuccess_continues(txHash) == Continue

\* return { success: true, transactionHash: txHash, ..., poolUsed: {...} }
ReturnSuccess(txHash) ==
    /\ resp' = [status |-> 200, success |-> TRUE, transactionHash |-> txHash,
                fromToken |-> req.fromToken, toToken |-> req.toToken,
                fromAmount |-> req.amount,
                poolUsed |-> PoolUsed(iter.pool, iter.poolAddress)]
    /\ pc' = "done"
    /\ i' = i

\* `await market.swap({...}, keypair)` and what follows it: the return of
\* the result, or the catch block when the execution throws.
Swap ==
    /\ pc = "swap"
    /\ \E executed \in BOOLEAN :
        /\ calls' = Append(calls,
              [rid |-> self, op |-> "market.swap", cand |-> i, xToY |-> iter.xToY,
               estimatedPriceAfterSwap |-> EstimatedPriceAfterSwap(simulation),
               pair |-> iter.pair, amount |-> swapAmount,
               slippage |-> iter.slippage, byAmountIn |-> TRUE,
               accountX |-> iter.accountX, accountY |-> iter.accountY,
               owner |-> keypair.publicKey, signer |-> keypair.secret,
               ok |-> executed])
        /\ IF executed
           THEN ReturnSuccess(Len(calls') ) /\ logs' = logs
           ELSE CatchInLoop("market.swap error")
    /\ UNCHANGED <<ledgerPools, self, parked, switches, accounts, reqVars, pools, iter, simulation, ata, rets>>

\* throw new Error('All available pools failed for this swap'), as answered
\* by the catch block of POST /api/swap: the response carries the message of
\* the error; the per-pool lines went to the console only.
AllFailedError == ErrorResponse(500, "All available pools failed for this swap")

\* mutant of AllPoolsFailed: after the last candidate nothing is answered
AllPoolsFailed_hangs ==
    /\ pc = "loop"
    /\ i > Len(pools)
    /\ UNCHANGED vars

\* mutant of AllPoolsFailed: the request gives up before its last candidate
AllPoolsFailed_early ==
    /\ pc = "loop"
    /\ i >= Len(pools)
    /\ resp' = AllFailedError
    /\ pc' = "done"
    /\ UNCHANGED <<ledgerPools, self, parked, switches, accounts, reqVars, loopVars, ata, rets, calls, logs>>

\* The loop condition fails: every pool was tried.
AllPoolsFailed ==
    /\ pc = "loop"
    /\ i > Len(pools)
    /\ resp' = AllFailedError
    /\ pc' = "done"
    /\ UNCHANGED <<ledgerPools, self, parked, switches, accounts, reqVars, loopVars, ata, rets, calls, logs>>

\* -------------------------------------------------------- POST /api/quote
QuoteBodies == { body \in Bodies : body.privateKey = "" }

\* POST /api/quote up to its first await: the required-field check,
\* getTokenInfo of both symbols and the swapAmount.
PostQuoteFrom(bodies) ==
    /\ pc = "idle"
    /\ route' = "POST /api/quote"
    /\ \E body \in bodies :
        /\ req' = body
        /\ IF body.fromToken = "" \/ body.toToken = "" \/ body.amount = 0
           THEN /\ resp' = ErrorResponse(400, "fromToken, toToken, and amount are required")
                /\ pc' = "done"
                /\ UNCHANGED <<fromTokenInfo, toTokenInfo, swapAmount>>
           ELSE IF getTokenInfo(body.fromToken) = NoToken
                   \/ getTokenInfo(body.toToken) = NoToken
           THEN /\ resp' = ErrorResponse(500, "Token not supported")
                /\ pc' = "done"
                /\ UNCHANGED <<fromTokenInfo, toTokenInfo, swapAmount>>
           ELSE /\ fromTokenInfo' = getTokenInfo(body.fromToken)
                /\ toTokenInfo' = getTokenInfo(body.toToken)
                /\ swapAmount' = ToSmallestUnits(body.amount, fromTokenInfo'.decimals)
                /\ pc' = "quote:initializeMarket"
                /\ resp' = resp
    /\ UNCHANGED <<ledgerPools, self, parked, switches, accounts, keypair, loopVars, ata, rets, calls, logs>>

PostQuote == PostQuoteFrom(QuoteBodies)

\* const market = await initializeMarket() of the quote handler
QuoteInitializeMarket ==
    /\ pc = "quote:initializeMarket"
    /\ \E built \in BOOLEAN :
        /\ calls' = Append(calls, [rid |-> self, op |-> "Market.build", ok |-> built])
        /\ IF built
           THEN pc' = "quote:findBestPoolForPair" /\ resp' = resp
           ELSE /\ resp' = ErrorResponse(500, "Market initialization failed")
                /\ pc' = "done"
    /\ UNCHANGED <<ledgerPools, self, parked, switches, accounts, reqVars, loopVars, ata, rets, logs>>

\* findBestPoolForPair of the quote handler and its check pools.length === 0
QuoteFindBestPoolForPair ==
    /\ pc = "quote:findBestPoolForPair"
    /\ \E answered \in BOOLEAN :
        /\ calls' = Append(calls, [rid |-> self, op |-> "getAllPools", ok |-> answered])
        /\ IF ~answered
           THEN /\ resp' = ErrorResponse(500, "getAllPools failed")
                /\ pc' = "done"
                /\ pools' = pools
           ELSE /\ pools' = findBestPoolForPair(ledgerPools, fromTokenInfo.mint,
                                                toTokenInfo.mint)
                /\ IF Len(pools') = 0
                   THEN /\ resp' = ErrorResponse(400, "No liquidity pools found")
                        /\ pc' = "done"
                   ELSE /\ pc' = "quote:swapSimulation"
                        /\ resp' = resp
    /\ UNCHANGED <<ledgerPools, self, parked, switches, accounts, reqVars, i, iter, simulation, ata,
                   rets, logs>>

\* The consts the quote handler computes from pools[0].
QuoteOf(pool) ==
    LET pair == Pair(pool.tokenX, pool.tokenY, FeeTierOf(pool)) IN
    [pool |-> pool,
     pair |-> pair,
     xToY |-> XToY(pair, fromTokenInfo.mint),
     poolAddress |-> getAddress(pair),
     slippage |-> toDecimal(SlippageOf(req))]

\* mutant of QuoteSimulate: a quote whose simulation is Ok goes on to execute
QuoteSimulate_executes ==
    /\ pc = "quote:swapSimulation"
    /\ iter' = IterationOf(pools[1])
    /\ i' = 1
    /\ simulation' = [status |-> "Ok", priceAfterSwap |-> 1]
    /\ calls' = Append(calls,
          [rid |-> self, op |-> "swapSimulation", cand |-> 1, xToY |-> iter'.xToY,
           byAmountIn |-> TRUE, amount |-> swapAmount,
           slippage |-> iter'.slippage, poolAddress |-> iter'.poolAddress,
           maxCrosses |-> TICK_CROSSES_PER_IX_NATIVE_TOKEN,
           status |-> "Ok", priceAfterSwap |-> 1])
    /\ pc' = "swap"
    /\ UNCHANGED <<ledgerPools, self, parked, switches, accounts, reqVars, pools, ata, rets, logs, resp>>

\* The simulation of the quote handler against the pool with the lowest fee,
\* and the response.
QuoteSimulate ==
    /\ pc = "quote:swapSimulation"
    /\ iter' = QuoteOf(pools[1])
    /\ i' = 1
    /\ \E outcome \in SimulationOutcomes :
        /\ calls' = Append(calls,
              [rid |-> self, op |-> "swapSimulation", cand |-> 1, xToY |-> iter'.xToY,
               byAmountIn |-> TRUE, amount |-> swapAmount,
               slippage |-> iter'.slippage, poolAddress |-> iter'.poolAddress,
               maxCrosses |-> TICK_CROSSES_PER_IX_NATIVE_TOKEN,
               status |-> outcome.status,
               priceAfterSwap |-> outcome.priceAfterSwap])
        /\ IF outcome.status = "throw"
           THEN /\ simulation' = simulation
                /\ resp' = ErrorResponse(500, "swapSimulation error")
           ELSE /\ simulation' = outcome
                /\ IF outcome.status # "Ok"
                   THEN resp' = ErrorResponse(400, "Simulation failed")
                   ELSE resp' = [status |-> 200, success |-> TRUE,
                                 fromToken |-> req.fromToken, toToken |-> req.toToken,
                                 fromAmount |-> req.amount, fee |-> pools[1].fee,
                                 slippage |-> SlippageOf(req)]
    /\ pc' = "done"
    /\ UNCHANGED <<ledgerPools, self, parked, switches, accounts, reqVars, pools, ata, rets, logs>>

Next ==
    \/ PostSwap
    \/ InitializeMarket
    \/ ResolveTokens
    \/ FindBestPoolForPair
    \/ EnsureFromAccount
    \/ EnsureToAccount
    \/ GetAccount
    \/ SendCreate
    \/ Simulate
    \/ Swap
    \/ AllPoolsFailed
    \/ PostQuote
    \/ QuoteInitializeMarket
    \/ QuoteFindBestPoolForPair
    \/ QuoteSimulate

Spec == Init /\ [][Next]_vars

\* ------------------------------------------- the provisioner called twice
\* app.ts: const keypair = Keypair.fromSecretKey(...) of WALLET_PRIVATE_KEY,
\* the signer of every operation of the script.
AppKeypair == createKeypairFromPrivateKey("keyA")

\* app.ts createAssociatedTokenAccount: the token program of a mint
AppTokenProgram(mint) ==
    IF mint = USDT_MINT \/ mint = USDC_MINT
    THEN TOKEN_2022_PROGRAM_ID ELSE TOKEN_PROGRAM_ID

\* The provisioner calls that are made twice in succession: the server's
\* createTokenAccountIfNeeded for a registered token and the owner of a
\* request, and createAssociatedTokenAccount of app.ts for a mint.
ProvisionerCalls ==
    { ProvisionerFrame(TOKEN_REGISTRY[sym].mint, owner, owner,
                       TOKEN_REGISTRY[sym].tokenProgram,
                       "createTokenAccountIfNeeded", "again")
        : sym \in DOMAIN TOKEN_REGISTRY, owner \in Owners }
    \cup
    { ProvisionerFrame(mint, AppKeypair.publicKey, AppKeypair.publicKey,
                       AppTokenProgram(mint), "createAssociatedTokenAccount", "again")
        : mint \in Mints }

InitProvision ==
    /\ ledgerPools = <<>>
    /\ ata \in ProvisionerCalls
    /\ accounts \in SUBSET (AccountUniverse \cup {ata.address})
    /\ route = None
    /\ pc = "again"
    /\ req = NoBody
    /\ keypair = NoKeypair
    /\ fromTokenInfo = NoToken
    /\ toTokenInfo = NoToken
    /\ swapAmount = 0
    /\ pools = <<>>
    /\ i = 0
    /\ iter = NoIter
    /\ simulation = NoSimulation
    /\ rets = <<>>
    /\ calls = <<>>
    /\ logs = <<>>
    /\ resp = NoResp
    /\ self = 1
    /\ parked = NoParked
    /\ switches = 0

\* The provisioner is called with the arguments of the frame; it is called
\* twice.
CallProvisioner ==
    /\ pc = "again"
    /\ Len(rets) < 2
    /\ pc' = "getAccount"
    /\ UNCHANGED <<ledgerPools, self, parked, switches, accounts, reqVars, loopVars, ata, rets, calls,
                   logs, resp>>

NextProvision ==
    \/ CallProvisioner
    \/ GetAccount
    \/ SendCreate

SpecProvision == InitProvision /\ [][NextProvision]_vars

\* -------------------------------------------------- pool discovery alone
\* mutant of getPoolsForTokenPair: the address is derived with the tick
\* spacing 1, whatever the pool's own
getPoolsForTokenPair_tickOne(allPools, tokenA, tokenB) ==
    LET matchingPools == FilterPools(allPools, tokenA, tokenB) IN
    [k \in 1..Len(matchingPools) |->
        [pool |-> matchingPools[k],
         address |-> getAddress(Pair(matchingPools[k].tokenX, matchingPools[k].tokenY,
                                     [fee |-> matchingPools[k].fee, tickSpacing |-> 1]))]]

\* app.ts getPoolsForTokenPair: the matching pools in enumeration order, each
\* with the address derived from the pool's own fee tier.  The list is not
\* sorted.
getPoolsForTokenPair(allPools, tokenA, tokenB) ==
    LET matchingPools == FilterPools(allPools, tokenA, tokenB) IN
    [k \in 1..Len(matchingPools) |->
        [pool |-> matchingPools[k],
         address |-> getAddress(Pair(matchingPools[k].tokenX, matchingPools[k].tokenY,
                                     FeeTierOf(matchingPools[k])))]]

\* const poolsWithAddresses = await getPoolsForTokenPair(market, pair.tokenA,
\* pair.tokenB) of smartSwapEthToUsdt; an error of getAllPools is caught by
\* the catch block of the token pair.
AppGetPoolsForTokenPair ==
    /\ pc = "getPoolsForTokenPair"
    /\ \E answered \in BOOLEAN :
        /\ calls' = Append(calls, [rid |-> self, op |-> "getAllPools", ok |-> answered])
        /\ IF ~answered
           THEN /\ pools' = pools
                /\ logs' = Append(logs, [pool |-> 0, line |-> "Error processing",
                                         detail |-> "getAllPools failed"])
                /\ pc' = "smartSwap:nextPair"
           ELSE /\ pools' = getPoolsForTokenPair(ledgerPools, fromTokenInfo.mint,
                                                 toTokenInfo.mint)
                /\ logs' = logs
                /\ pc' = "smartSwap:pools"
    /\ UNCHANGED <<ledgerPools, self, parked, switches, accounts, reqVars, i, iter, simulation, ata,
                   rets, resp>>

\* The tokens discovery is called for.
RegisteredTokens == {TOKEN_REGISTRY[sym] : sym \in DOMAIN TOKEN_REGISTRY}

\* A discovery call is about to be made, by performTokenSwap or by
\* smartSwapEthToUsdt, for two tokens and some pool enumeration of the ledger.
InitDiscovery ==
    /\ ledgerPools \in Enumerations
    /\ accounts = {}
    /\ \/ route = "POST /api/swap" /\ pc = "findBestPoolForPair"
       \/ route = "smartSwapEthToUsdt" /\ pc = "getPoolsForTokenPair"
    /\ req = NoBody
    /\ keypair = NoKeypair
    /\ fromTokenInfo \in RegisteredTokens
    /\ toTokenInfo \in RegisteredTokens
    /\ swapAmount = 0
    /\ pools = <<>>
    /\ i = 0
    /\ iter = NoIter
    /\ simulation = NoSimulation
    /\ ata = NoAta
    /\ rets = <<>>
    /\ calls = <<>>
    /\ logs = <<>>
    /\ resp = NoResp
    /\ self = 1
    /\ parked = NoParked
    /\ switches = 0

NextDiscovery ==
    \/ FindBestPoolForPair
    \/ AppGetPoolsForTokenPair

SpecDiscovery == InitDiscovery /\ [][NextDiscovery]_vars

\* ------------------------------------------------ two requests in a row
\* The variables of one request handler.
Locals ==
    [route |-> route, pc |-> pc, req |-> req, keypair |-> keypair,
     fromTokenInfo |-> fromTokenInfo, toTokenInfo |-> toTokenInfo,
     swapAmount |-> swapAmount, pools |-> pools, i |-> i, iter |-> iter,
     simulation |-> simulation, ata |-> ata, rets |-> rets, resp |-> resp]

\* The variables of a handler that has not started.
IdleLocals ==
    [route |-> None, pc |-> "idle", req |-> NoBody, keypair |-> NoKeypair,
     fromTokenInfo |-> NoToken, toTokenInfo |-> NoToken,
     swapAmount |-> 0, pools |-> <<>>, i |-> 0, iter |-> NoIter,
     simulation |-> NoSimulation, ata |-> NoAta, rets |-> <<>>, resp |-> NoResp]

\* mutant of Resume: the keypair is a process-wide variable, as in app.ts,
\* that every handler reads and the last request wrote
Resume_processWideKeypair(l) ==
    /\ route' = l.route
    /\ pc' = l.pc
    /\ req' = l.req
    /\ keypair' = keypair
    /\ fromTokenInfo' = l.fromTokenInfo
    /\ toTokenInfo' = l.toTokenInfo
    /\ swapAmount' = l.swapAmount
    /\ pools' = l.pools
    /\ i' = l.i
    /\ iter' = l.iter
    /\ simulation' = l.simulation
    /\ ata' = l.ata
    /\ rets' = l.rets
    /\ resp' = l.resp

\* The running handler's variables become those of the record l.
Resume(l) ==
    /\ route' = l.route
    /\ pc' = l.pc
    /\ req' = l.req
    /\ keypair' = l.keypair
    /\ fromTokenInfo' = l.fromTokenInfo
    /\ toTokenInfo' = l.toTokenInfo
    /\ swapAmount' = l.swapAmount
    /\ pools' = l.pools
    /\ i' = l.i
    /\ iter' = l.iter
    /\ simulation' = l.simulation
    /\ ata' = l.ata
    /\ rets' = l.rets
    /\ resp' = l.resp

\* The requests of the two-request specifications: a swap and a quote of
\* one unit of ETH for USDT.
SeqSwapBodies ==
    { body \in Bodies : /\ body.fromToken = "ETH" /\ body.toToken = "USDT"
                        /\ body.amount = 10 /\ body.slippage = <<>>
                        /\ body.privateKey = "keyA" }
SeqQuoteBodies ==
    { body \in QuoteBodies : /\ body.fromToken = "ETH" /\ body.toToken = "USDT"
                             /\ body.amount = 10 /\ body.slippage = <<>> }

\* The first request was answered; the server handles a second one, with
\* fresh handler variables.  The ledger and the console are the same.
NextRequest ==
    /\ self = 1
    /\ pc = "done"
    /\ parked' = Locals
    /\ self' = 2
    /\ Resume(IdleLocals)
    /\ UNCHANGED <<ledgerPools, accounts, calls, logs, switches>>

\* Between the two requests a pool is created on the ledger, or the
\* enumeration is otherwise different.
LedgerChange ==
    /\ self = 2
    /\ pc = "idle"
    /\ ledgerPools' \in Enumerations \ {ledgerPools}
    /\ UNCHANGED <<self, parked, switches, accounts, pc, reqVars, loopVars, ata, rets,
                   calls, logs, resp>>

NextSequential ==
    \/ PostQuoteFrom(SeqQuoteBodies)
    \/ QuoteInitializeMarket
    \/ QuoteFindBestPoolForPair
    \/ QuoteSimulate
    \/ NextRequest
    \/ LedgerChange

SpecSequential == Init /\ [][NextSequential]_vars

\* ------------------------------------------------------ the registry alone
\* The symbols getTokenInfo is applied to: the keys of the registry, lower
\* case spellings, and symbols that are not registered.
LookupSymbols == DOMAIN TOKEN_REGISTRY \cup {"eth", "sol", "usdt", "usdc", "xyz", "XYZ", ""}

\* performTokenSwap stands before its two getTokenInfo calls: the keypair is
\* made and the market is built.
InitRegistry ==
    /\ ledgerPools \in {seq \in Enumerations : Len(seq) <= 1}
    /\ accounts = {}
    /\ route = "POST /api/swap"
    /\ pc = "getTokenInfo"
    /\ req \in [fromToken : LookupSymbols, toToken : LookupSymbols, amount : {10},
                slippage : {<<>>}, privateKey : {"keyA"}]
    /\ keypair = createKeypairFromPrivateKey("keyA")
    /\ fromTokenInfo = NoToken
    /\ toTokenInfo = NoToken
    /\ swapAmount = 0
    /\ pools = <<>>
    /\ i = 0
    /\ iter = NoIter
    /\ simulation = NoSimulation
    /\ ata = NoAta
    /\ rets = <<>>
    /\ calls = <<[rid |-> 1, op |-> "Market.build", ok |-> TRUE]>>
    /\ logs = <<>>
    /\ resp = NoResp
    /\ self = 1
    /\ parked = NoParked
    /\ switches = 0

NextRegistry == ResolveTokens

SpecRegistry == InitRegistry /\ [][NextRegistry]_vars

\* ------------------------------------------ two swap requests interleaved
\* The positions at which a handler is suspended: the awaits of
\* performTokenSwap and of createTokenAccountIfNeeded.  Between two awaits a
\* handler runs without interruption.
AwaitPoints ==
    {"initializeMarket", "findBestPoolForPair", "getAccount", "sendCreate", "loop", "swap"}

\* The handler that is running stands at an await (or has answered) and the
\* event loop resumes the other request.
Switch ==
    /\ pc \in AwaitPoints \cup {"done"}
    /\ parked.pc # "done"
    /\ switches < MaxSwitches
    /\ switches' = switches + 1
    /\ parked' = Locals
    /\ self' = 3 - self
    /\ Resume(parked)
    /\ UNCHANGED <<ledgerPools, accounts, calls, logs>>

\* Two swap requests of the same owner have arrived; the ledger lists one
\* pool and some of the owner's accounts exist.
InitConcurrent ==
    /\ ledgerPools = <<[tokenX |-> USDT_MINT, tokenY |-> NATIVE_MINT, fee |-> 100000000,
                        tickSpacing |-> 1]>>
    /\ accounts \in SUBSET AccountUniverse
    /\ route = None
    /\ pc = "idle"
    /\ req = NoBody
    /\ keypair = NoKeypair
    /\ fromTokenInfo = NoToken
    /\ toTokenInfo = NoToken
    /\ swapAmount = 0
    /\ pools = <<>>
    /\ i = 0
    /\ iter = NoIter
    /\ simulation = NoSimulation
    /\ ata = NoAta
    /\ rets = <<>>
    /\ calls = <<>>
    /\ logs = <<>>
    /\ resp = NoResp
    /\ self = 1
    /\ parked = IdleLocals
    /\ switches = 0

NextConcurrent ==
    \/ PostSwapFrom(SeqSwapBodies)
    \/ InitializeMarket
    \/ ResolveTokens
    \/ FindBestPoolForPair
    \/ EnsureFromAccount
    \/ EnsureToAccount
    \/ GetAccount
    \/ SendCreate
    \/ Simulate
    \/ Swap
    \/ AllPoolsFailed
    \/ Switch

SpecConcurrent == InitConcurrent /\ [][NextConcurrent]_vars

\* ------------------------------- two swap requests of different owners
\* The private key each of the two requests carries.
KeyOfRequest(r) == IF r = 1 THEN "keyA" ELSE "keyB"

\* The body of request r: one unit of ETH for USDT, with the key of r.
OwnerBodies(r) ==
    { [fromToken |-> "ETH", toToken |-> "USDT", amount |-> 10, slippage |-> <<>>,
       privateKey |-> KeyOfRequest(r)] }

\* The ETH and USDT token accounts of an owner.
AccountsOfOwner(owner) ==
    { getAssociatedTokenAddressSync(NATIVE_MINT, owner, TOKEN_PROGRAM_ID),
      getAssociatedTokenAddressSync(USDT_MINT, owner, TOKEN_2022_PROGRAM_ID) }

\* Two swap requests of two owners have arrived; the ledger lists one pool,
\* and the owners' accounts all exist or are all missing.
InitOwners ==
    /\ ledgerPools = <<[tokenX |-> USDT_MINT, tokenY |-> NATIVE_MINT, fee |-> 100000000,
                        tickSpacing |-> 1]>>
    /\ accounts \in {{}, AccountsOfOwner("ownerA") \cup AccountsOfOwner("ownerB")}
    /\ route = None
    /\ pc = "idle"
    /\ req = NoBody
    /\ keypair = NoKeypair
    /\ fromTokenInfo = NoToken
    /\ toTokenInfo = NoToken
    /\ swapAmount = 0
    /\ pools = <<>>
    /\ i = 0
    /\ iter = NoIter
    /\ simulation = NoSimulation
    /\ ata = NoAta
    /\ rets = <<>>
    /\ calls = <<>>
    /\ logs = <<>>
    /\ resp = NoResp
    /\ self = 1
    /\ parked = IdleLocals
    /\ switches = 0

\* POST /api/swap of the request that is running, with its own body.
PostSwapOfOwner == \E r \in {1, 2} : self = r /\ PostSwapFrom(OwnerBodies(r))

NextOwners ==
    \/ PostSwapOfOwner
    \/ InitializeMarket
    \/ ResolveTokens
    \/ FindBestPoolForPair
    \/ EnsureFromAccount
    \/ EnsureToAccount
    \/ GetAccount
    \/ SendCreate
    \/ Simulate
    \/ Swap
    \/ AllPoolsFailed
    \/ Switch

SpecOwners == InitOwners /\ [][NextOwners]_vars

\* ------------------------------------- swap.ts: InvariantEclipseTrader
\* this.wallet = getStoredKeypair()
TraderWallet == [publicKey |-> "wallet", secret |-> "walletKey"]

LAMPORTS_PER_SOL == 1000000000
DEFAULT_FEE_BN == 6          \* new BN(DEFAULT_FEE * 1000)
DEFAULT_TICK_SPACING == 10
DEFAULT_SLIPPAGE_BN == 1     \* new BN(DEFAULT_SLIPPAGE * 100)

\* getAssociatedTokenAddress(mint, owner): the token program is the default.
TraderAccount(mint) ==
    getAssociatedTokenAddressSync(mint, TraderWallet.publicKey, TOKEN_PROGRAM_ID)

TraderAccounts == {TraderAccount(SOL_MINT), TraderAccount(USDT_MINT)}

\* The locals of ensureTokenAccounts when it is called; `before` keeps the
\* accounts that existed at the call.
TraderFrame(existing) ==
    [accountX |-> TraderAccount(SOL_MINT), accountY |-> TraderAccount(USDT_MINT),
     transaction |-> <<>>, needsTransaction |-> FALSE, pending |-> <<>>,
     before |-> existing]

\* createAssociatedTokenAccountInstruction(payer, account, owner, mint)
CreateInstruction(account, mint) ==
    [payer |-> TraderWallet.publicKey, account |-> account,
     owner |-> TraderWallet.publicKey, mint |-> mint]

\* mutant of SubmittedTransactions: one transaction per account
SubmittedTransactions_perAccount(transaction) ==
    [k \in 1..Len(transaction) |-> <<transaction[k]>>]

\* The transactions ensureTokenAccounts submits: one, holding every
\* instruction that was added.
SubmittedTransactions(transaction) == <<transaction>>

\* await this.initializeMarket() of swapSolToUsdt; the error is thrown on.
TraderInitializeMarket ==
    /\ pc = "trader:initializeMarket"
    /\ \E built \in BOOLEAN :
        /\ calls' = Append(calls, [rid |-> self, op |-> "Market.build", ok |-> built])
        /\ IF built
           THEN pc' = "trader:getAccountSol" /\ ata' = TraderFrame(accounts)
           ELSE pc' = "trader:threw" /\ ata' = ata
    /\ UNCHANGED <<ledgerPools, self, parked, switches, accounts, reqVars, loopVars, rets,
                   logs, resp>>

\* The existence check of one account (try { await getAccount } catch { add
\* the create instruction }) and the position that follows it.
TraderCheck(at, account, mint, next) ==
    /\ pc = at
    /\ \E answered \in BOOLEAN :
        /\ calls' = Append(calls, [rid |-> self, op |-> "getAccount", inv |-> Len(rets) + 1,
                                   address |-> account, answered |-> answered,
                                   found |-> ObservedPresent(account, answered)])
        /\ ata' = IF ObservedPresent(account, answered)
                  THEN ata
                  ELSE [ata EXCEPT !.transaction = Append(@, CreateInstruction(account, mint)),
                                   !.needsTransaction = TRUE]
    /\ pc' = next
    /\ UNCHANGED <<ledgerPools, self, parked, switches, accounts, reqVars, loopVars, rets,
                   logs, resp>>

TraderGetAccountSol ==
    TraderCheck("trader:getAccountSol", ata.accountX, SOL_MINT, "trader:getAccountUsdt")

TraderGetAccountUsdt ==
    TraderCheck("trader:getAccountUsdt", ata.accountY, USDT_MINT, "trader:needsTransaction")

\* return { accountX, accountY } of ensureTokenAccounts, into swapSolToUsdt.
TraderReturnAccounts ==
    /\ rets' = Append(rets, [threw |-> FALSE,
                             value |-> [accountX |-> ata.accountX,
                                        accountY |-> ata.accountY]])
    /\ pc' = "trader:swap"

\* if (needsTransaction) { ... }
TraderNeedsTransaction ==
    /\ pc = "trader:needsTransaction"
    /\ IF ata.needsTransaction
       THEN /\ ata' = [ata EXCEPT !.pending = SubmittedTransactions(ata.transaction)]
            /\ pc' = "trader:send"
            /\ rets' = rets
       ELSE /\ ata' = ata
            /\ TraderReturnAccounts
    /\ UNCHANGED <<ledgerPools, self, parked, switches, accounts, reqVars, loopVars, calls,
                   logs, resp>>

\* await sendAndConfirmTransaction(connection, transaction, [wallet]).  The
\* ledger applies every instruction of a transaction or none; it rejects a
\* transaction that creates an account that exists, and may reject any other.
TraderSendTransaction ==
    /\ pc = "trader:send"
    /\ \E accepted \in BOOLEAN :
        LET tx == Head(ata.pending)
            created == {tx[k].account : k \in 1..Len(tx)}
            applied == accepted /\ created \cap accounts = {}
        IN
        /\ calls' = Append(calls, [rid |-> self, op |-> "sendAndConfirmTransaction",
                                   instructions |-> tx, ok |-> applied])
        /\ IF applied
           THEN /\ accounts' = accounts \cup created
                /\ ata' = [ata EXCEPT !.pending = Tail(@)]
                /\ IF Tail(ata.pending) = <<>>
                   THEN TraderReturnAccounts
                   ELSE pc' = "trader:send" /\ rets' = rets
           ELSE /\ accounts' = accounts
                /\ ata' = ata
                /\ rets' = Append(rets, ProvisionerThrow)
                /\ pc' = "trader:threw"
    /\ UNCHANGED <<ledgerPools, self, parked, switches, reqVars, loopVars, logs, resp>>

\* The pair swapSolToUsdt builds: new Pair(SOL_MINT, USDT_MINT, { fee: new
\* BN(DEFAULT_FEE * 1000), tickSpacing: DEFAULT_TICK_SPACING }).
TraderPair ==
    Pair(SOL_MINT, USDT_MINT,
         [fee |-> DEFAULT_FEE_BN, tickSpacing |-> DEFAULT_TICK_SPACING])

\* await this.market.swap({...}, this.wallet) of swapSolToUsdt: no simulation
\* precedes it, xToY is the literal true and the price estimate is new BN(1).
\* The catch block logs the error and throws it on.
TraderSwap ==
    /\ pc = "trader:swap"
    /\ swapAmount' = LAMPORTS_PER_SOL \div 2
    /\ iter' = [pool |-> None, pair |-> TraderPair, xToY |-> TRUE,
                accountX |-> rets[Len(rets)].value.accountX,
                accountY |-> rets[Len(rets)].value.accountY,
                poolAddress |-> getAddress(TraderPair),
                slippage |-> [v |-> DEFAULT_SLIPPAGE_BN, denominator |-> 1]]
    /\ \E executed \in BOOLEAN :
        /\ calls' = Append(calls,
              [rid |-> self, op |-> "market.swap", cand |-> 1, xToY |-> iter'.xToY,
               estimatedPriceAfterSwap |-> 1,
               pair |-> iter'.pair, amount |-> swapAmount',
               slippage |-> iter'.slippage, byAmountIn |-> TRUE,
               accountX |-> iter'.accountX, accountY |-> iter'.accountY,
               owner |-> keypair.publicKey, signer |-> keypair.secret,
               ok |-> executed])
        /\ pc' = IF executed THEN "trader:done" ELSE "trader:threw"
    /\ UNCHANGED <<ledgerPools, self, parked, switches, accounts, route, req, keypair,
                   fromTokenInfo, toTokenInfo, pools, i, simulation, ata, rets, logs, resp>>

\* The pools the ledger may list for the trader: those of the server's
\* ledger and pools of the pair SOL/USDT, one of them with the trader's fee
\* tier.
TraderPoolUniverse ==
    { [tokenX |-> SOL_MINT, tokenY |-> USDT_MINT, fee |-> DEFAULT_FEE_BN,
       tickSpacing |-> DEFAULT_TICK_SPACING],
      [tokenX |-> SOL_MINT, tokenY |-> USDT_MINT, fee |-> 100000000, tickSpacing |-> 1],
      [tokenX |-> USDT_MINT, tokenY |-> NATIVE_MINT, fee |-> 100000000, tickSpacing |-> 1] }

\* swapSolToUsdt is called: the trader holds its wallet, the ledger lists
\* some pools and some of the wallet's token accounts exist.
InitTrader ==
    /\ ledgerPools \in
          UNION { { seq \in [1..n -> TraderPoolUniverse] : IsInjective(seq) } : n \in 0..2 }
    /\ accounts \in SUBSET TraderAccounts
    /\ route = "swapSolToUsdt"
    /\ pc = "trader:initializeMarket"
    /\ req = NoBody
    /\ keypair = TraderWallet
    /\ fromTokenInfo = NoToken
    /\ toTokenInfo = NoToken
    /\ swapAmount = 0
    /\ pools = <<>>
    /\ i = 0
    /\ iter = NoIter
    /\ simulation = NoSimulation
    /\ ata = NoAta
    /\ rets = <<>>
    /\ calls = <<>>
    /\ logs = <<>>
    /\ resp = NoResp
    /\ self = 1
    /\ parked = NoParked
    /\ switches = 0

NextTrader ==
    \/ TraderInitializeMarket
    \/ TraderGetAccountSol
    \/ TraderGetAccountUsdt
    \/ TraderNeedsTransaction
    \/ TraderSendTransaction
    \/ TraderSwap

SpecTrader == InitTrader /\ [][NextTrader]_vars

\* ------------------------------------------- the swap routines of app.ts
\* const ETH_MINT = NATIVE_MINT
ETH_MINT == NATIVE_MINT

\* The token of a routine's token pair, held as the server holds a token.
AppToken(mint) == [mint |-> mint]

\* Balances (lamports) the wallet's wrapped SOL account may hold.
WrappedSolBalances == {0, 2, 5}

\* mutant of FortyPercent: the 40% are rounded up
FortyPercent_roundedUp(wrappedSolBalance) == (wrappedSolBalance * 40 + 99) \div 100

\* wrappedSolBalance.muln(40).divn(100)
FortyPercent(wrappedSolBalance) == (wrappedSolBalance * 40) \div 100

\* toDecimal(0, 0)
ZeroSlippage == [v |-> 0, denominator |-> 1]

\* The wallet's token account of a mint: TOKEN_2022_PROGRAM_ID for the mints
\* the routine names, TOKEN_PROGRAM_ID otherwise.
AppAccount(mint, token2022Mints) ==
    getAssociatedTokenAddressSync(mint, AppKeypair.publicKey,
        IF mint \in token2022Mints THEN TOKEN_2022_PROGRAM_ID ELSE TOKEN_PROGRAM_ID)

\* The addresses at which the ledger holds a pool.
LedgerAddresses ==
    { getAddress(Pair(ledgerPools[k].tokenX, ledgerPools[k].tokenY,
                      FeeTierOf(ledgerPools[k]))) : k \in 1..Len(ledgerPools) }

\* swapSimulation reads the pool at the address: it throws when the ledger
\* holds no pool there.
AppSimulationOutcomes(address) ==
    IF address \in LedgerAddresses
    THEN SimulationOutcomes
    ELSE {[status |-> "throw", priceAfterSwap |-> 0]}

\* getAvailableWrappedSolBalance and the 40% of it the routine swaps: the
\* balance is 0 when getAccount throws; the routine returns when the amount
\* is 0.
GetAvailableWrappedSolBalance(at, next) ==
    /\ pc = at
    /\ LET address == getAssociatedTokenAddressSync(ETH_MINT, keypair.publicKey,
                                                     TOKEN_PROGRAM_ID) IN
       \E amount \in WrappedSolBalances :
         LET wrappedSolBalance == IF address \in accounts THEN amount ELSE 0 IN
         /\ calls' = Append(calls, [rid |-> self, op |-> "getAccount", address |-> address,
                                    found |-> address \in accounts,
                                    balance |-> wrappedSolBalance])
         /\ swapAmount' = FortyPercent(wrappedSolBalance)
         /\ pc' = IF swapAmount' = 0 THEN "returned" ELSE next
    /\ UNCHANGED <<ledgerPools, self, parked, switches, accounts, route, req, keypair,
                   fromTokenInfo, toTokenInfo, loopVars, ata, rets, logs, resp>>

\* const feeTier = { fee: new BN(1000), tickSpacing: 1 } of swapEthToUsdt
EthToUsdtFeeTier == [fee |-> 1000, tickSpacing |-> 1]

\* const pair = new Pair(ETH_MINT, USDT_MINT, feeTier)
EthToUsdtPair == Pair(ETH_MINT, USDT_MINT, EthToUsdtFeeTier)

\* checkPoolExists: some pool of the enumeration has the pair's two tokens,
\* whatever its fee tier.
checkPoolExists(allPools, pair) ==
    \E k \in 1..Len(allPools) : MatchesPair(allPools[k], pair.tokenX, pair.tokenY)

\* mutant of SimulatedXToY: the literal is true, as in swapSolToUsdt
SimulatedXToY_literalTrue(xToY) == TRUE

\* swapSimulation(false /* xToY */, ...) of swapEthToUsdt: the direction the
\* simulation is asked for is the literal false.
SimulatedXToY(xToY) == FALSE

EthToUsdtBalance ==
    /\ route = "swapEthToUsdt"
    /\ GetAvailableWrappedSolBalance("ethToUsdt:balance", "ethToUsdt:checkPoolExists")

\* await checkPoolExists(market, pair), whose catch block answers false, and
\* the consts computed before the simulation.
EthToUsdtCheckPoolExists ==
    /\ route = "swapEthToUsdt"
    /\ pc = "ethToUsdt:checkPoolExists"
    /\ \E answered \in BOOLEAN :
        LET poolExists == answered /\ checkPoolExists(ledgerPools, EthToUsdtPair) IN
        /\ calls' = Append(calls, [rid |-> self, op |-> "getAllPools", ok |-> answered])
        /\ IF poolExists
           THEN /\ iter' = [pool |-> None, pair |-> EthToUsdtPair,
                            xToY |-> XToY(EthToUsdtPair, ETH_MINT),
                            accountX |-> AppAccount(EthToUsdtPair.tokenX, {USDT_MINT}),
                            accountY |-> AppAccount(EthToUsdtPair.tokenY, {USDT_MINT}),
                            poolAddress |-> getAddress(EthToUsdtPair),
                            slippage |-> ZeroSlippage]
                /\ pc' = "ethToUsdt:simulate"
           ELSE /\ iter' = iter
                /\ pc' = "returned"
    /\ UNCHANGED <<ledgerPools, self, parked, switches, accounts, reqVars, pools, i, simulation,
                   ata, rets, logs, resp>>

\* await swapSimulation(false, true, swapAmount, undefined, slippage, market,
\* pair.getAddress(programId), ...); a status other than Ok is thrown, and the
\* catch block of the routine logs it.
EthToUsdtSimulate ==
    /\ route = "swapEthToUsdt"
    /\ pc = "ethToUsdt:simulate"
    /\ \E outcome \in AppSimulationOutcomes(iter.poolAddress) :
        /\ calls' = Append(calls,
              [rid |-> self, op |-> "swapSimulation", cand |-> 1,
               xToY |-> SimulatedXToY(iter.xToY),
               byAmountIn |-> TRUE, amount |-> swapAmount,
               slippage |-> iter.slippage, poolAddress |-> iter.poolAddress,
               maxCrosses |-> TICK_CROSSES_PER_IX_NATIVE_TOKEN,
               status |-> outcome.status,
               priceAfterSwap |-> outcome.priceAfterSwap])
        /\ IF outcome.status = "Ok"
           THEN /\ simulation' = outcome
                /\ logs' = logs
                /\ pc' = "ethToUsdt:swap"
           ELSE /\ simulation' = simulation
                /\ logs' = Append(logs, [pool |-> 1, line |-> "Swap failed",
                                         detail |-> outcome.status])
                /\ pc' = "caught"
    /\ UNCHANGED <<ledgerPools, self, parked, switches, accounts, reqVars, pools, i, iter,
                   ata, rets, resp>>

\* await market.swap({ xToY, estimatedPriceAfterSwap: simulation.priceAfterSwap,
\* pair, ... }, keypair) of swapEthToUsdt
EthToUsdtSwap ==
    /\ route = "swapEthToUsdt"
    /\ pc = "ethToUsdt:swap"
    /\ \E executed \in BOOLEAN :
        /\ calls' = Append(calls,
              [rid |-> self, op |-> "market.swap", cand |-> 1, xToY |-> iter.xToY,
               estimatedPriceAfterSwap |-> simulation.priceAfterSwap,
               pair |-> iter.pair, amount |-> swapAmount,
               slippage |-> iter.slippage, byAmountIn |-> TRUE,
               accountX |-> iter.accountX, accountY |-> iter.accountY,
               owner |-> keypair.publicKey, signer |-> keypair.secret,
               ok |-> executed])
        /\ IF executed
           THEN /\ logs' = logs
                /\ pc' = "done"
           ELSE /\ logs' = Append(logs, [pool |-> 1, line |-> "Swap failed",
                                         detail |-> "market.swap error"])
                /\ pc' = "caught"
    /\ UNCHANGED <<ledgerPools, self, parked, switches, accounts, reqVars, loopVars,
                   ata, rets, resp>>

\* mutant of tokenPairs: ETH/USDC comes first
tokenPairs_usdcFirst ==
    << [tokenA |-> ETH_MINT, tokenB |-> USDC_MINT, name |-> "ETH/USDC"],
       [tokenA |-> ETH_MINT, tokenB |-> USDT_MINT, name |-> "ETH/USDT"] >>

\* const tokenPairs = [{ ETH_MINT, USDT_MINT, "ETH/USDT" }, { ETH_MINT, USDC_MINT, "ETH/USDC" }]
tokenPairs ==
    << [tokenA |-> ETH_MINT, tokenB |-> USDT_MINT, name |-> "ETH/USDT"],
       [tokenA |-> ETH_MINT, tokenB |-> USDC_MINT, name |-> "ETH/USDC"] >>

\* The position in tokenPairs of the pair the outer loop is at; the pair is
\* held in fromTokenInfo (tokenA) and toTokenInfo (tokenB).
TokenPairIndex ==
    CHOOSE k \in 1..Len(tokenPairs) : tokenPairs[k].tokenB = toTokenInfo.mint

\* The consts of one iteration of the inner loop of smartSwapEthToUsdt, for
\* the entry { pool, address } of poolsWithAddresses.
SmartSwapIterationOf(entry) ==
    LET pair == Pair(entry.pool.tokenX, entry.pool.tokenY, FeeTierOf(entry.pool)) IN
    [pool |-> entry.pool,
     pair |-> pair,
     xToY |-> XToY(pair, ETH_MINT),
     accountX |-> AppAccount(pair.tokenX, {USDT_MINT, USDC_MINT}),
     accountY |-> AppAccount(pair.tokenY, {USDT_MINT, USDC_MINT}),
     poolAddress |-> entry.address,
     slippage |-> ZeroSlippage]

\* `continue` of the inner loop, after the line the iteration logs.
SmartSwapContinue(line, detail) ==
    /\ logs' = Append(logs, [pool |-> i, line |-> line, detail |-> detail])
    /\ i' = i + 1
    /\ pc' = "smartSwap:loop"

SmartSwapBalance ==
    /\ route = "smartSwapEthToUsdt"
    /\ GetAvailableWrappedSolBalance("smartSwap:balance", "getPoolsForTokenPair")

\* if (poolsWithAddresses.length === 0) { ...; continue; } and the start of
\* the inner loop.
SmartSwapPools ==
    /\ pc = "smartSwap:pools"
    /\ IF Len(pools) = 0
       THEN /\ logs' = Append(logs, [pool |-> 0, line |-> "No pools found",
                                     detail |-> tokenPairs[TokenPairIndex].name])
            /\ i' = i
            /\ pc' = "smartSwap:nextPair"
       ELSE /\ logs' = logs
            /\ i' = 1
            /\ pc' = "smartSwap:loop"
    /\ UNCHANGED <<ledgerPools, self, parked, switches, accounts, reqVars, pools, iter,
                   simulation, ata, rets, calls, resp>>

\* One iteration of the inner loop up to the end of `await swapSimulation(xToY,
\* true, swapAmount, undefined, slippage, market, address, ...)` and the status
\* check; the catch block of the iteration logs a thrown error and continues.
SmartSwapSimulate ==
    /\ pc = "smartSwap:loop"
    /\ i <= Len(pools)
    /\ iter' = SmartSwapIterationOf(pools[i])
    /\ \E outcome \in AppSimulationOutcomes(iter'.poolAddress) :
        /\ calls' = Append(calls,
              [rid |-> self, op |-> "swapSimulation", cand |-> i, xToY |-> iter'.xToY,
               byAmountIn |-> TRUE, amount |-> swapAmount,
               slippage |-> iter'.slippage, poolAddress |-> iter'.poolAddress,
               maxCrosses |-> TICK_CROSSES_PER_IX_NATIVE_TOKEN,
               status |-> outcome.status,
               priceAfterSwap |-> outcome.priceAfterSwap])
        /\ IF outcome.status = "throw"
           THEN /\ simulation' = simulation
                /\ SmartSwapContinue("Error with pool", "swapSimulation error")
           ELSE /\ simulation' = outcome
                /\ IF outcome.status # "Ok"
                   THEN SmartSwapContinue("Simulation failed", outcome.status)
                   ELSE /\ pc' = "smartSwap:swap"
                        /\ UNCHANGED <<i, logs>>
    /\ UNCHANGED <<ledgerPools, self, parked, switches, accounts, reqVars, pools, ata, rets,
                   resp>>

\* await market.swap({ xToY, estimatedPriceAfterSwap: simulation.priceAfterSwap,
\* pair, ... }, keypair); `return` after a successful swap, the catch block of
\* the iteration otherwise.
SmartSwapSwap ==
    /\ pc = "smartSwap:swap"
    /\ \E executed \in BOOLEAN :
        /\ calls' = Append(calls,
              [rid |-> self, op |-> "market.swap", cand |-> i, xToY |-> iter.xToY,
               estimatedPriceAfterSwap |-> simulation.priceAfterSwap,
               pair |-> iter.pair, amount |-> swapAmount,
               slippage |-> iter.slippage, byAmountIn |-> TRUE,
               accountX |-> iter.accountX, accountY |-> iter.accountY,
               owner |-> keypair.publicKey, signer |-> keypair.secret,
               ok |-> executed])
        /\ IF executed
           THEN /\ pc' = "done"
                /\ UNCHANGED <<i, logs>>
           ELSE SmartSwapContinue("Error with pool", "market.swap error")
    /\ UNCHANGED <<ledgerPools, self, parked, switches, accounts, reqVars, pools, iter,
                   simulation, ata, rets, resp>>

\* The inner loop has run through poolsWithAddresses.
SmartSwapLoopEnd ==
    /\ pc = "smartSwap:loop"
    /\ i > Len(pools)
    /\ pc' = "smartSwap:nextPair"
    /\ UNCHANGED <<ledgerPools, self, parked, switches, accounts, reqVars, loopVars, ata, rets,
                   calls, logs, resp>>

\* The outer loop goes to the next token pair, or ends with "All swap attempts
\* failed - no suitable pools found".
SmartSwapNextPair ==
    /\ pc = "smartSwap:nextPair"
    /\ IF TokenPairIndex < Len(tokenPairs)
       THEN /\ fromTokenInfo' = AppToken(tokenPairs[TokenPairIndex + 1].tokenA)
            /\ toTokenInfo' = AppToken(tokenPairs[TokenPairIndex + 1].tokenB)
            /\ logs' = logs
            /\ pc' = "getPoolsForTokenPair"
       ELSE /\ UNCHANGED <<fromTokenInfo, toTokenInfo>>
            /\ logs' = Append(logs, [pool |-> 0, line |-> "All swap attempts failed",
                                     detail |-> None])
            /\ pc' = "failed"
    /\ UNCHANGED <<ledgerPools, self, parked, switches, accounts, route, req, keypair,
                   swapAmount, loopVars, ata, rets, calls, resp>>

\* The pool the ledger holds at an address (market.getPoolByAddress).
getPoolByAddress(poolAddress) ==
    LET k == CHOOSE k \in 1..Len(ledgerPools) :
                 getAddress(Pair(ledgerPools[k].tokenX, ledgerPools[k].tokenY,
                                 FeeTierOf(ledgerPools[k]))) = poolAddress
    IN ledgerPools[k]

\* if (poolData.tokenX.equals(tokenA)) { xToY = swapFromA } else { xToY = !swapFromA }
ActualPoolXToY(poolData, tokenA, tokenB, swapFromA) ==
    IF poolData.tokenX = tokenA THEN swapFromA ELSE ~swapFromA

\* `return false` of swapUsingActualPool, from the status check or from the
\* catch block.
ActualPoolReturnFalse(line, detail) ==
    /\ logs' = Append(logs, [pool |-> 1, line |-> line, detail |-> detail])
    /\ rets' = Append(rets, [fn |-> "swapUsingActualPool", value |-> FALSE])
    /\ pc' = "returned"

\* const poolData = await market.getPoolByAddress(poolAddress), and the consts
\* computed from it before the simulation; the parameter poolAddress is held
\* in iter, swapFromA in req.
ActualPoolGetPoolByAddress ==
    /\ route = "swapUsingActualPool"
    /\ pc = "actual:getPoolByAddress"
    /\ \E answered \in BOOLEAN :
        /\ calls' = Append(calls, [rid |-> self, op |-> "getPoolByAddress",
                                   poolAddress |-> iter.poolAddress,
                                   ok |-> answered /\ iter.poolAddress \in LedgerAddresses])
        /\ IF answered /\ iter.poolAddress \in LedgerAddresses
           THEN LET poolData == getPoolByAddress(iter.poolAddress)
                    xToY == ActualPoolXToY(poolData, fromTokenInfo.mint, toTokenInfo.mint,
                                           req.swapFromA)
                IN /\ iter' = [pool |-> poolData,
                               pair |-> Pair(poolData.tokenX, poolData.tokenY,
                                             FeeTierOf(poolData)),
                               xToY |-> xToY,
                               accountX |-> AppAccount(poolData.tokenX, {USDT_MINT, USDC_MINT}),
                               accountY |-> AppAccount(poolData.tokenY, {USDT_MINT, USDC_MINT}),
                               poolAddress |-> iter.poolAddress,
                               slippage |-> ZeroSlippage]
                   /\ pc' = "actual:simulate"
                   /\ UNCHANGED <<logs, rets>>
           ELSE /\ iter' = iter
                /\ ActualPoolReturnFalse("Swap failed", "getPoolByAddress error")
    /\ UNCHANGED <<ledgerPools, self, parked, switches, accounts, reqVars, pools, i, simulation,
                   ata, resp>>

\* await swapSimulation(xToY, true, swapAmount, undefined, slippage, market,
\* poolAddress, ...) of swapUsingActualPool and the status check.
ActualPoolSimulate ==
    /\ route = "swapUsingActualPool"
    /\ pc = "actual:simulate"
    /\ \E outcome \in AppSimulationOutcomes(iter.poolAddress) :
        /\ calls' = Append(calls,
              [rid |-> self, op |-> "swapSimulation", cand |-> 1, xToY |-> iter.xToY,
               byAmountIn |-> TRUE, amount |-> swapAmount,
               slippage |-> iter.slippage, poolAddress |-> iter.poolAddress,
               maxCrosses |-> TICK_CROSSES_PER_IX_NATIVE_TOKEN,
               status |-> outcome.status,
               priceAfterSwap |-> outcome.priceAfterSwap])
        /\ IF outcome.status = "Ok"
           THEN /\ simulation' = outcome
                /\ pc' = "actual:swap"
                /\ UNCHANGED <<logs, rets>>
           ELSE /\ simulation' = simulation
                /\ ActualPoolReturnFalse(IF outcome.status = "throw" THEN "Swap failed"
                                         ELSE "Simulation failed", outcome.status)
    /\ UNCHANGED <<ledgerPools, self, parked, switches, accounts, reqVars, pools, i, iter,
                   ata, resp>>

\* await market.swap({ xToY, estimatedPriceAfterSwap: simulation.priceAfterSwap,
\* pair, ... }, keypair) of swapUsingActualPool; `return true` after it.
ActualPoolSwap ==
    /\ route = "swapUsingActualPool"
    /\ pc = "actual:swap"
    /\ \E executed \in BOOLEAN :
        /\ calls' = Append(calls,
              [rid |-> self, op |-> "market.swap", cand |-> 1, xToY |-> iter.xToY,
               estimatedPriceAfterSwap |-> simulation.priceAfterSwap,
               pair |-> iter.pair, amount |-> swapAmount,
               slippage |-> iter.slippage, byAmountIn |-> TRUE,
               accountX |-> iter.accountX, accountY |-> iter.accountY,
               owner |-> keypair.publicKey, signer |-> keypair.secret,
               ok |-> executed])
        /\ IF executed
           THEN /\ rets' = Append(rets, [fn |-> "swapUsingActualPool", value |-> TRUE])
                /\ pc' = "done"
                /\ logs' = logs
           ELSE ActualPoolReturnFalse("Swap failed", "market.swap error")
    /\ UNCHANGED <<ledgerPools, self, parked, switches, accounts, reqVars, loopVars,
                   ata, resp>>

\* Pools the ledger may hold when a routine of app.ts runs: those of the
\* server's ledger, the ETH/USDT pool of the fee tier swapEthToUsdt names, and
\* a pool of two other tokens.
AppPoolUniverse ==
    PoolUniverse \cup
    { [tokenX |-> USDT_MINT, tokenY |-> NATIVE_MINT, fee |-> EthToUsdtFeeTier.fee,
       tickSpacing |-> EthToUsdtFeeTier.tickSpacing],
      [tokenX |-> WBTC_MINT, tokenY |-> USDC_MINT, fee |-> 100000000, tickSpacing |-> 1] }

AppEnumerations ==
    UNION { { seq \in [1..n -> AppPoolUniverse] : IsInjective(seq) } : n \in 0..MaxPools }

\* What the three routines share when one of them is called.
InitAppCommon ==
    /\ ledgerPools \in AppEnumerations
    /\ accounts \in SUBSET {getAssociatedTokenAddressSync(ETH_MINT, AppKeypair.publicKey,
                                                           TOKEN_PROGRAM_ID)}
    /\ keypair = AppKeypair
    /\ pools = <<>>
    /\ i = 0
    /\ simulation = NoSimulation
    /\ ata = NoAta
    /\ rets = <<>>
    /\ calls = <<>>
    /\ logs = <<>>
    /\ resp = NoResp
    /\ self = 1
    /\ parked = NoParked
    /\ switches = 0

\* swapEthToUsdt(market) or smartSwapEthToUsdt(market) is called, or
\* swapUsingActualPool(market, poolAddress, tokenA, tokenB, swapAmount,
\* swapFromA) is called with a pool address, one of the token pairs of its
\* caller and a positive amount.
InitApp ==
    /\ InitAppCommon
    /\ \/ /\ \/ route = "swapEthToUsdt" /\ pc = "ethToUsdt:balance"
             \/ route = "smartSwapEthToUsdt" /\ pc = "smartSwap:balance"
          /\ req = NoBody
          /\ fromTokenInfo = AppToken(tokenPairs[1].tokenA)
          /\ toTokenInfo = AppToken(tokenPairs[1].tokenB)
          /\ swapAmount = 0
          /\ iter = NoIter
       \/ /\ route = "swapUsingActualPool"
          /\ pc = "actual:getPoolByAddress"
          /\ req \in {[swapFromA |-> b] : b \in BOOLEAN}
          /\ \E k \in 1..Len(tokenPairs) :
                /\ fromTokenInfo = AppToken(tokenPairs[k].tokenA)
                /\ toTokenInfo = AppToken(tokenPairs[k].tokenB)
          /\ swapAmount \in {FortyPercent(b) : b \in WrappedSolBalances} \ {0}
          /\ iter \in {[pool |-> None,
                        poolAddress |-> getAddress(Pair(p.tokenX, p.tokenY, FeeTierOf(p)))] :
                       p \in AppPoolUniverse}

NextApp ==
    \/ EthToUsdtBalance
    \/ EthToUsdtCheckPoolExists
    \/ EthToUsdtSimulate
    \/ EthToUsdtSwap
    \/ SmartSwapBalance
    \/ AppGetPoolsForTokenPair
    \/ SmartSwapPools
    \/ SmartSwapSimulate
    \/ SmartSwapSwap
    \/ SmartSwapLoopEnd
    \/ SmartSwapNextPair
    \/ ActualPoolGetPoolByAddress
    \/ ActualPoolSimulate
    \/ ActualPoolSwap

SpecApp == InitApp /\ [][NextApp]_vars

\* ------------------------------- the routines that simulate, then execute
\* performTokenSwap of the server, or swapEthToUsdt, smartSwapEthToUsdt or
\* swapUsingActualPool of app.ts, is called.
InitRoutines == Init \/ InitApp

NextRoutines == Next \/ NextApp

SpecRoutines == InitRoutines /\ [][NextRoutines]_vars

\* ------------------------------------------ one swap request, run to its end
\* POST /api/swap of one unit of ETH for USDT with a good key.
PostSwapAccepted == PostSwapFrom(SeqSwapBodies)

NextSwapRequest ==
    \/ PostSwapAccepted
    \/ InitializeMarket
    \/ ResolveTokens
    \/ FindBestPoolForPair
    \/ EnsureFromAccount
    \/ EnsureToAccount
    \/ GetAccount
    \/ SendCreate
    \/ Simulate
    \/ Swap
    \/ AllPoolsFailed

\* Every ledger call the handler awaits returns, with a result or an error,
\* and the handler then runs on: the next step of the request is taken.
SpecSwapRequest == Init /\ [][NextSwapRequest]_vars /\ WF_vars(NextSwapRequest)

\* ------------------------------------- requests between symbols of one mint
\* Swap requests of one unit with a good key: between two symbols the
\* registry maps to the wrapped native mint, and from ETH to USDT.
SharedMintBodies ==
    { [fromToken |-> f, toToken |-> t, amount |-> 10, slippage |-> <<>>,
       privateKey |-> "keyA"] :
      f \in {"ETH", "SOL", "WETH"}, t \in {"ETH", "SOL", "sol", "WETH", "USDT"} }

PostSwapSharedMint == PostSwapFrom(SharedMintBodies)

NextSharedMint ==
    \/ PostSwapSharedMint
    \/ InitializeMarket
    \/ ResolveTokens
    \/ FindBestPoolForPair
    \/ EnsureFromAccount
    \/ EnsureToAccount
    \/ GetAccount
    \/ SendCreate
    \/ Simulate
    \/ Swap
    \/ AllPoolsFailed

SpecSharedMint == Init /\ [][NextSharedMint]_vars

\* ------------------------------------------------------- POST /api/wrap-sol
\* Bodies of POST /api/wrap-sol; the amount (SOL) is held in tenths.
WrapBodies == [privateKey : PrivateKeys, amount : Amounts]

\* Math.floor(parseFloat(amount) * LAMPORTS_PER_SOL)
LamportsToWrap(amount) == amount * (LAMPORTS_PER_SOL \div 10)

\* const minBalance = lamportsToWrap + 5000
MinBalance(lamportsToWrap) == lamportsToWrap + 5000

\* Native balances (lamports) the owner may hold: nothing, and one lamport
\* less than, exactly, and more than what wrapping 0.5 SOL needs.
NativeBalances == {0, 500004999, 500005000, 1000005000}

\* mutant of WrapInstructions: the account creation is always included
WrapInstructions_alwaysCreate(accountExists, owner, account, lamportsToWrap) ==
    << [kind |-> "createAssociatedTokenAccount", payer |-> owner, account |-> account,
        owner |-> owner, mint |-> NATIVE_MINT],
       [kind |-> "transfer", fromPubkey |-> owner, toPubkey |-> account,
        lamports |-> lamportsToWrap],
       [kind |-> "syncNative", account |-> account] >>

\* const instructions = []: the creation of the account if (!accountExists),
\* then the transfer, then the sync.
WrapInstructions(accountExists, owner, account, lamportsToWrap) ==
    (IF accountExists THEN <<>>
     ELSE << [kind |-> "createAssociatedTokenAccount", payer |-> owner, account |-> account,
              owner |-> owner, mint |-> NATIVE_MINT] >>)
    \o << [kind |-> "transfer", fromPubkey |-> owner, toPubkey |-> account,
           lamports |-> lamportsToWrap],
          [kind |-> "syncNative", account |-> account] >>

\* POST /api/wrap-sol up to its first await: the two validations,
\* createKeypairFromPrivateKey and lamportsToWrap.
PostWrapSol ==
    /\ pc = "idle"
    /\ route' = "POST /api/wrap-sol"
    /\ \E body \in WrapBodies :
        /\ req' = body
        /\ IF body.privateKey = "" \/ body.amount = 0
           THEN /\ resp' = ErrorResponse(400, "privateKey and amount are required")
                /\ pc' = "done"
                /\ UNCHANGED <<keypair, swapAmount>>
           ELSE IF body.amount <= 0
           THEN /\ resp' = ErrorResponse(400, "Amount must be greater than 0")
                /\ pc' = "done"
                /\ UNCHANGED <<keypair, swapAmount>>
           ELSE IF createKeypairFromPrivateKey(body.privateKey) = NoKeypair
           THEN /\ resp' = ErrorResponse(500, "Invalid private key format")
                /\ pc' = "done"
                /\ UNCHANGED <<keypair, swapAmount>>
           ELSE /\ keypair' = createKeypairFromPrivateKey(body.privateKey)
                /\ swapAmount' = LamportsToWrap(body.amount)
                /\ pc' = "wrap:getBalance"
                /\ resp' = resp
    /\ UNCHANGED <<ledgerPools, self, parked, switches, accounts, fromTokenInfo, toTokenInfo,
                   loopVars, ata, rets, calls, logs>>

\* await connection.getBalance(keypair.publicKey) and the balance check.
WrapGetBalance ==
    /\ pc = "wrap:getBalance"
    /\ \E answered \in BOOLEAN, balance \in NativeBalances :
        /\ calls' = Append(calls, [rid |-> self, op |-> "getBalance",
                                   owner |-> keypair.publicKey, balance |-> balance,
                                   ok |-> answered])
        /\ IF ~answered
           THEN /\ resp' = ErrorResponse(500, "getBalance failed")
                /\ pc' = "done"
           ELSE IF balance < MinBalance(swapAmount)
           THEN /\ resp' = ErrorResponse(400, "Insufficient SOL balance")
                /\ pc' = "done"
           ELSE /\ resp' = resp
                /\ pc' = "wrap:getAccount"
    /\ UNCHANGED <<ledgerPools, self, parked, switches, accounts, reqVars, loopVars, ata, rets,
                   logs>>

\* try { await getAccount(connection, associatedTokenAccount, "confirmed",
\* TOKEN_PROGRAM_ID); accountExists = true } catch (error) {}
WrapGetAccount ==
    /\ pc = "wrap:getAccount"
    /\ LET associatedTokenAccount ==
               getAssociatedTokenAddressSync(NATIVE_MINT, keypair.publicKey, TOKEN_PROGRAM_ID)
       IN \E answered \in BOOLEAN :
            /\ calls' = Append(calls, [rid |-> self, op |-> "getAccount", inv |-> 1,
                                       address |-> associatedTokenAccount,
                                       answered |-> answered,
                                       found |-> ObservedPresent(associatedTokenAccount,
                                                                 answered)])
            /\ ata' = [address |-> associatedTokenAccount,
                       accountExists |-> ObservedPresent(associatedTokenAccount, answered)]
    /\ pc' = "wrap:send"
    /\ UNCHANGED <<ledgerPools, self, parked, switches, accounts, reqVars, loopVars, rets,
                   logs, resp>>

\* await sendAndConfirmTransaction(connection, transaction, [keypair]) and
\* the answer.  The ledger applies all instructions or none, and it rejects
\* the creation of an account that exists.
WrapSend ==
    /\ pc = "wrap:send"
    /\ LET instructions == WrapInstructions(ata.accountExists, keypair.publicKey,
                                            ata.address, swapAmount)
           creates == instructions[1].kind = "createAssociatedTokenAccount"
       IN \E accepted \in BOOLEAN :
            LET applied == accepted /\ (creates => ata.address \notin accounts)
                                    /\ (~creates => ata.address \in accounts)
            IN /\ calls' = Append(calls, [rid |-> self, op |-> "sendAndConfirmTransaction",
                                          instructions |-> instructions,
                                          signer |-> keypair.secret, ok |-> applied])
               /\ accounts' = IF applied THEN accounts \cup {ata.address} ELSE accounts
               /\ resp' = IF applied
                          THEN [status |-> 200, success |-> TRUE,
                                wrappedAmount |-> swapAmount, tokenAccount |-> ata.address]
                          ELSE ErrorResponse(500, "transaction failed")
    /\ pc' = "done"
    /\ UNCHANGED <<ledgerPools, self, parked, switches, reqVars, loopVars, ata, rets, logs>>

NextWrapSol ==
    \/ PostWrapSol
    \/ WrapGetBalance
    \/ WrapGetAccount
    \/ WrapSend

SpecWrapSol == Init /\ [][NextWrapSol]_vars

\* ================================================================= claims
IsSimulate(c) == c.op = "swapSimulation"
IsExecute(c) == c.op = "market.swap"
Swapping == route = "POST /api/swap"

\* The address of a pool of the ledger, from its own fields.
PoolAddressOf(pool) ==
    <<pool.tokenX, pool.tokenY, pool.fee,
      IF pool.tickSpacing = 0 THEN 1 ELSE pool.tickSpacing>>

PositionIn(seq, x) == CHOOSE k \in 1..Len(seq) : seq[k] = x

\* The loop stands before candidate c and nothing was answered yet.
AboutToTry(c) == pc = "loop" /\ i = c /\ resp.status = 0

\* C1: in performTokenSwap a simulation with a non-Ok status is followed by
\* the simulation of the next candidate, and a successful request reports as
\* poolUsed the address and fee of the candidate whose execution succeeded,
\* not those of a candidate that failed before it.
C1_FallbackReportsSucceedingPool ==
    Swapping =>
      /\ \A k \in 1..Len(calls) :
            ( /\ IsSimulate(calls[k])
              /\ calls[k].status \notin {"Ok", "throw"}
              /\ calls[k].cand < Len(pools) )
            => IF k < Len(calls)
               THEN IsSimulate(calls[k + 1]) /\ calls[k + 1].cand = calls[k].cand + 1
               ELSE AboutToTry(calls[k].cand + 1)
      /\ resp.status = 200 =>
            LET last == calls[Len(calls)] IN
            /\ IsExecute(last) /\ last.ok
            /\ resp.poolUsed.address = PoolAddressOf(pools[last.cand])
            /\ resp.poolUsed.fee = pools[last.cand].fee
            /\ \A c \in 1..(last.cand - 1) :
                  resp.poolUsed.address # PoolAddressOf(pools[c])

\* C1 witness: candidates with fees 100_000_000 and 500_000_000, the first
\* simulation not Ok, the second candidate executed and reported.
C1_Witness ==
    /\ Swapping /\ resp.status = 200
    /\ Len(pools) = 2
    /\ pools[1].fee = 100000000 /\ pools[2].fee = 500000000
    /\ \E k \in 1..Len(calls) :
          IsSimulate(calls[k]) /\ calls[k].cand = 1 /\ calls[k].status = "TooLargeGap"
    /\ resp.poolUsed.address = PoolAddressOf(pools[2])

\* C2: after a failed execution of candidate k the next candidate is
\* simulated before the request gives up, and every execute call carries the
\* priceAfterSwap of the simulation of the same candidate, which is the call
\* just before it.
C2_FreshSimulationPerExecution ==
    Swapping =>
      /\ \A k \in 1..Len(calls) :
            (IsExecute(calls[k]) /\ ~calls[k].ok /\ calls[k].cand < Len(pools))
            => IF k < Len(calls)
               THEN IsSimulate(calls[k + 1]) /\ calls[k + 1].cand = calls[k].cand + 1
               ELSE AboutToTry(calls[k].cand + 1)
      /\ \A k \in 1..Len(calls) :
            IsExecute(calls[k])
            => /\ k > 1
               /\ IsSimulate(calls[k - 1])
               /\ calls[k - 1].cand = calls[k].cand
               /\ calls[k - 1].status = "Ok"
               /\ calls[k - 1].poolAddress = getAddress(calls[k].pair)
               /\ calls[k].estimatedPriceAfterSwap = calls[k - 1].priceAfterSwap

\* C2 witness: the first candidate was simulated and its execution failed,
\* the second candidate was simulated with another price and executed.
C2_Witness ==
    /\ Swapping
    /\ \E j, k \in 1..Len(calls) :
          /\ j < k
          /\ IsExecute(calls[j]) /\ calls[j].cand = 1 /\ ~calls[j].ok
          /\ IsExecute(calls[k]) /\ calls[k].cand = 2
          /\ calls[k].estimatedPriceAfterSwap # calls[j].estimatedPriceAfterSwap

\* C3: a successful execute call is the last ledger call of the request and
\* the request is answered with success at once; at most one execution
\* succeeds.
C3_StopsAtFirstSuccess ==
    Swapping =>
      /\ \A k \in 1..Len(calls) :
            (IsExecute(calls[k]) /\ calls[k].ok)
            => k = Len(calls) /\ pc = "done" /\ resp.status = 200
      /\ Cardinality({k \in 1..Len(calls) : IsExecute(calls[k]) /\ calls[k].ok}) <= 1

\* C3 witness: the first candidate succeeded while another one was left.
C3_Witness ==
    /\ Swapping /\ resp.status = 200
    /\ calls[Len(calls)].cand = 1
    /\ Len(pools) >= 2

\* C4: when discovery returns no candidate the request fails with the
\* no-pools-found error, which differs from the all-failed error, and no
\* simulate or execute call was issued.
C4_NoPoolsFound ==
    ( /\ Swapping
      /\ \E k \in 1..Len(calls) : calls[k].op = "getAllPools" /\ calls[k].ok
      /\ Len(pools) = 0 )
    => /\ pc = "done"
       /\ resp.status = 500 /\ ~resp.success
       /\ resp.error = "No liquidity pools found"
       /\ resp.error # AllFailedError.error
       /\ \A k \in 1..Len(calls) : ~IsSimulate(calls[k]) /\ ~IsExecute(calls[k])

\* C4 witness: the ledger has pools, none of them for the requested pair.
C4_Witness ==
    /\ Swapping /\ pc = "done"
    /\ ledgerPools # <<>>
    /\ \E k \in 1..Len(calls) : calls[k].op = "getAllPools" /\ calls[k].ok
    /\ Len(pools) = 0
    /\ resp.error = "No liquidity pools found"

\* C5: once the candidate loop was entered, the request ends either in
\* success with a poolUsed of the discovered candidates or in the all-failed
\* failure, whatever simulate and execute did; nothing is answered while the
\* loop runs.
C5_SuccessOrAllFailed ==
    (Swapping /\ i >= 1) =>
      /\ pc \in {"loop", "swap", "done"}
      /\ pc # "done" => resp.status = 0
      /\ pc = "done" =>
            \/ /\ resp.status = 200 /\ resp.success
               /\ \E c \in 1..Len(pools) :
                     /\ resp.poolUsed.address = PoolAddressOf(pools[c])
                     /\ resp.poolUsed.fee = pools[c].fee
            \/ resp = AllFailedError

\* C5 witness: all candidates failed, one by a thrown simulation and one by
\* a thrown execution.
C5_Witness ==
    /\ Swapping /\ pc = "done" /\ resp = AllFailedError
    /\ \E k \in 1..Len(calls) : IsSimulate(calls[k]) /\ calls[k].status = "throw"
    /\ \E k \in 1..Len(calls) : IsExecute(calls[k]) /\ ~calls[k].ok

\* C6: the all-failed failure carries the per-candidate reasons, one per
\* candidate tried, in order.  (The code answers with the message only.)
C6_AllFailedCarriesReasons ==
    (Swapping /\ resp.status = 500 /\ resp.error = AllFailedError.error)
    => /\ "reasons" \in DOMAIN resp
       /\ Len(resp.reasons) = Len(pools)
       /\ \A c \in 1..Len(pools) : resp.reasons[c] = logs[c]

\* C7: the sequence returned by findBestPoolForPair is non-decreasing by fee
\* and pools of equal fee keep the order of the ledger's enumeration.
C7_SortedByFeeStable ==
    (\E k \in 1..Len(calls) : calls[k].op = "getAllPools" /\ calls[k].ok)
    => \A a, b \in 1..Len(pools) :
          a < b =>
            /\ pools[a].fee <= pools[b].fee
            /\ pools[a].fee = pools[b].fee
                 => PositionIn(ledgerPools, pools[a]) < PositionIn(ledgerPools, pools[b])

\* C7 witness: three candidates, two of equal fee, and the dearest one was
\* enumerated before the first of them.
C7_Witness ==
    /\ Len(pools) = 3
    /\ pools[1].fee = pools[2].fee
    /\ pools[2].fee < pools[3].fee
    /\ PositionIn(ledgerPools, pools[3]) < PositionIn(ledgerPools, pools[1])

\* The canonical first token of the pool a call is made against.
TokenXOf(c) == IF IsSimulate(c) THEN c.poolAddress[1] ELSE c.pair.tokenX
TokenYOf(c) == IF IsSimulate(c) THEN c.poolAddress[2] ELSE c.pair.tokenY

\* C8: in every simulate and execute call of performTokenSwap and of the
\* quote endpoint, xToY is true exactly when the canonical first token of the
\* pair is the mint of the from-token.
C8_DirectionInvariant ==
    \A k \in 1..Len(calls) :
        (IsSimulate(calls[k]) \/ IsExecute(calls[k]))
        => /\ Base58Rank(TokenXOf(calls[k])) < Base58Rank(TokenYOf(calls[k]))
           /\ {TokenXOf(calls[k]), TokenYOf(calls[k])}
                 = {fromTokenInfo.mint, toTokenInfo.mint}
           /\ calls[k].xToY = (TokenXOf(calls[k]) = fromTokenInfo.mint)
           /\ calls[k].xToY = (Base58Rank(fromTokenInfo.mint) < Base58Rank(toTokenInfo.mint))

\* C8 witness: a swap request whose from-token is the canonical second token
\* of the pair has executed with xToY false.
C8_Witness ==
    /\ Swapping
    /\ fromTokenInfo.mint = NATIVE_MINT
    /\ \E k \in 1..Len(calls) : IsExecute(calls[k]) /\ ~calls[k].xToY

\* The other canonical ordering: the from-token is the canonical first token.
C8_WitnessXToY ==
    /\ fromTokenInfo.mint = USDT_MINT
    /\ \E k \in 1..Len(calls) : IsExecute(calls[k]) /\ calls[k].xToY

\* C9: POST /api/swap answers 400 to amount = 0, amount < 0, equal symbols
\* (compared in upper case) and a slippage outside [0, 50], before any ledger
\* or network call; slippage 0 and slippage 50 are accepted.
C9_ValidationBeforeLedger ==
    (Swapping /\ pc # "idle") =>
      /\ ( \/ req.amount <= 0
           \/ ToUpperCase(req.fromToken) = ToUpperCase(req.toToken)
           \/ SlippageOf(req) < 0
           \/ SlippageOf(req) > 500 )
         => /\ pc = "done"
            /\ resp.status = 400 /\ ~resp.success
            /\ calls = <<>>
      /\ ( /\ req.fromToken # "" /\ req.toToken # "" /\ req.privateKey # ""
           /\ req.amount > 0
           /\ ToUpperCase(req.fromToken) # ToUpperCase(req.toToken)
           /\ req.slippage \in {<<0>>, <<500>>} )
         => resp.status # 400

\* C9 witness: a request that is valid but for its slippage of 75 was
\* rejected.
C9_Witness ==
    /\ Swapping /\ resp.status = 400
    /\ req.fromToken = "ETH" /\ req.toToken = "USDT" /\ req.amount = 10
    /\ req.privateKey = "keyA" /\ req.slippage = <<750>>
    /\ calls = <<>>

\* A slippage of exactly 50 went on to the ledger.
C9_WitnessAccepted ==
    /\ Swapping /\ req.slippage = <<500>> /\ calls # <<>>

SimulateCallsOf(c) == {k \in 1..Len(calls) : IsSimulate(calls[k]) /\ calls[k].cand = c}

\* Candidate c was attempted: the loop went past it, or stands in its
\* iteration after the simulation.
Attempted(c) == c < i \/ (c = i /\ pc \in {"swap", "done"})

\* C11: within one swap request no candidate is simulated more than once:
\* every attempted candidate has exactly one simulate call, candidates not
\* reached have none, and every simulate call is issued on the pool of its
\* candidate with the amount and the slippage bound of the request.
C11_OneSimulatePerCandidate ==
    Swapping =>
        /\ \A k \in 1..Len(calls) :
              IsSimulate(calls[k]) =>
                 /\ calls[k].cand \in 1..Len(pools)
                 /\ calls[k].poolAddress = PoolAddressOf(pools[calls[k].cand])
                 /\ calls[k].amount = swapAmount
                 /\ calls[k].slippage = toDecimal(SlippageOf(req))
        /\ \A c \in 1..Len(pools) :
              /\ Cardinality(SimulateCallsOf(c)) <= 1
              /\ Attempted(c) <=> Cardinality(SimulateCallsOf(c)) = 1

\* C11 witness: three candidates were attempted, the first two had failed.
C11_Witness ==
    /\ Swapping /\ pc = "done" /\ Len(pools) = 3
    /\ \A c \in 1..3 : Cardinality(SimulateCallsOf(c)) = 1
    /\ Len(logs) >= 2

\* C12: when the creation of one of the owner's token accounts is rejected,
\* the swap request fails as a whole: the handler has answered with the
\* error of the creation, no candidate was entered (the loop index was never
\* set, no per-candidate line was logged) and no simulate or execute call
\* was issued.
C12_RejectedCreateFailsRequest ==
    (Swapping /\ \E k \in 1..Len(calls) : calls[k].op = "createAccount" /\ ~calls[k].ok)
    =>  /\ pc = "done"
        /\ resp = ErrorResponse(500, "Transaction failed")
        /\ i = 0
        /\ logs = <<>>
        /\ \A k \in 1..Len(calls) : ~IsSimulate(calls[k]) /\ ~IsExecute(calls[k])
        /\ calls[Len(calls)].op = "createAccount"

\* C12 witness: the first account was created, the creation of the second
\* one was rejected, and candidates were waiting.
C12_Witness ==
    /\ Swapping /\ pc = "done" /\ Len(pools) >= 2
    /\ Len(rets) = 2 /\ ~rets[1].threw /\ rets[2].threw
    /\ calls[Len(calls)].op = "createAccount" /\ ~calls[Len(calls)].ok

IsProvisioning(c) == c.op \in {"getAccount", "createAccount"}

\* C13: the owner's two token accounts are ensured once per swap request,
\* before the first candidate: there is at most one existence check and at
\* most one creation per account whatever the number of candidates, every
\* one of them precedes every simulate and execute call, and once the loop
\* is entered both accounts have been checked, in the order from, to.
C13_AccountsEnsuredOncePerRequest ==
    Swapping =>
        /\ \A k \in 1..Len(calls) :
              IsProvisioning(calls[k]) =>
                 /\ calls[k].inv \in {1, 2}
                 /\ calls[k].address =
                       LET t == IF calls[k].inv = 1 THEN fromTokenInfo ELSE toTokenInfo
                       IN getAssociatedTokenAddressSync(t.mint, keypair.publicKey,
                                                        t.tokenProgram)
                 /\ \A j \in 1..Len(calls) :
                       (calls[j].op = calls[k].op /\ calls[j].inv = calls[k].inv) => j = k
                 /\ \A j \in 1..Len(calls) :
                       (IsSimulate(calls[j]) \/ IsExecute(calls[j])) => k < j
        /\ i >= 1 =>
              /\ Len(rets) = 2
              /\ \A n \in {1, 2} :
                    \E k \in 1..Len(calls) : calls[k].op = "getAccount" /\ calls[k].inv = n

\* C13 witness: three candidates were attempted after two existence checks
\* and one creation.
C13_Witness ==
    /\ Swapping /\ pc = "done" /\ Len(pools) = 3
    /\ \A c \in 1..3 : SimulateCallsOf(c) # {}
    /\ Cardinality({k \in 1..Len(calls) : calls[k].op = "getAccount"}) = 2
    /\ Cardinality({k \in 1..Len(calls) : calls[k].op = "createAccount"}) = 1

\* The pools a discovery call returned, without the addresses app.ts adds.
DiscoveredPools ==
    IF route = "smartSwapEthToUsdt" THEN [k \in 1..Len(pools) |-> pools[k].pool] ELSE pools

\* The pools of the ledger's enumeration whose unordered pair is {tokenA, tokenB}.
LedgerPoolsOfPair(tokenA, tokenB) ==
    {p \in {ledgerPools[k] : k \in 1..Len(ledgerPools)} :
        {p.tokenX, p.tokenY} = {tokenA, tokenB}}

\* C14: a discovery call whose enumeration was answered returns exactly the
\* pools of the ledger whose unordered token pair is {tokenA, tokenB}, each
\* of them once; getPoolsForTokenPair pairs each with its own address.
C14_DiscoveryReturnsExactlyMatchingPools ==
    (calls # <<>> /\ calls[Len(calls)].op = "getAllPools" /\ calls[Len(calls)].ok)
    =>  /\ {DiscoveredPools[k] : k \in 1..Len(pools)}
              = LedgerPoolsOfPair(fromTokenInfo.mint, toTokenInfo.mint)
        /\ Len(pools) = Cardinality(LedgerPoolsOfPair(fromTokenInfo.mint, toTokenInfo.mint))
        /\ route = "smartSwapEthToUsdt" =>
              \A k \in 1..Len(pools) : pools[k].address = PoolAddressOf(pools[k].pool)

\* C14 witness: the pair is asked in the order opposite to the pools' own,
\* the ledger holds two matching pools and one that does not match.
C14_Witness ==
    /\ calls # <<>> /\ calls[Len(calls)].op = "getAllPools" /\ calls[Len(calls)].ok
    /\ route = "smartSwapEthToUsdt"
    /\ fromTokenInfo.mint = NATIVE_MINT /\ toTokenInfo.mint = USDT_MINT
    /\ Len(ledgerPools) = 3 /\ Len(pools) = 2
    /\ pools[1].pool.tokenX = USDT_MINT

\* The calls of operation op issued by request r.
CallsOf(r, op) == {k \in 1..Len(calls) : calls[k].rid = r /\ calls[k].op = op}

\* The running request's enumeration of the pools was answered.
Discovered == \E k \in CallsOf(self, "getAllPools") : calls[k].ok

\* C15: every request builds its own market and enumerates the ledger's
\* pools once, and its candidates are the matching pools of the ledger as it
\* is at that request, whatever an earlier request had found.
C15_DiscoveryNotCached ==
    /\ \A r \in {1, 2} :
          /\ Cardinality(CallsOf(r, "getAllPools")) <= 1
          /\ Cardinality(CallsOf(r, "Market.build")) <= 1
          /\ \A k \in CallsOf(r, "getAllPools") :
                \E j \in CallsOf(r, "Market.build") : j < k /\ calls[j].ok
    /\ Discovered =>
          /\ {pools[k] : k \in 1..Len(pools)}
                = LedgerPoolsOfPair(fromTokenInfo.mint, toTokenInfo.mint)
          /\ Len(pools) = Cardinality(LedgerPoolsOfPair(fromTokenInfo.mint,
                                                        toTokenInfo.mint))

\* C15 witness: the first request found candidates, the ledger changed, and
\* the second request found other candidates.
C15_Witness ==
    /\ self = 2 /\ Discovered
    /\ parked.pools # <<>> /\ pools # <<>>
    /\ {pools[k] : k \in 1..Len(pools)}
          # {parked.pools[k] : k \in 1..Len(parked.pools)}

\* The request passed the checks of POST /api/swap and its key is well formed.
AcceptedSwap ==
    /\ Swapping /\ pc # "idle"
    /\ ValidationError(req) = None
    /\ createKeypairFromPrivateKey(req.privateKey) # NoKeypair

NamesUnknownToken ==
    getTokenInfo(req.fromToken) = NoToken \/ getTokenInfo(req.toToken) = NoToken

\* C16 (as claimed): an otherwise valid swap request that names a symbol
\* absent from the registry issues no ledger or network call, and when it is
\* answered the answer is the token-not-supported error.  The code violates
\* it: performTokenSwap awaits initializeMarket() before getTokenInfo.
C16_UnknownTokenBeforeLedger ==
    (AcceptedSwap /\ NamesUnknownToken) =>
        /\ calls = <<>>
        /\ pc = "done" => resp = ErrorResponse(500, "Token not supported")

Quoting == route = "POST /api/quote"

\* C17: a quote request changes nothing on the ledger: it issues no execute
\* call, no account creation and no account check, it derives no keypair
\* and carries no private key, whatever the outcome of its simulation.
C17_QuoteReadOnly ==
    Quoting =>
        /\ \A k \in 1..Len(calls) :
              calls[k].op \in {"Market.build", "getAllPools", "swapSimulation"}
        /\ keypair = NoKeypair
        /\ req.privateKey = ""
        /\ rets = <<>> /\ ata = NoAta
        /\ pc \in {"done", "quote:initializeMarket", "quote:findBestPoolForPair",
                   "quote:swapSimulation"}

\* C17 frame: no step of a quote request changes the accounts or the pools
\* of the ledger.
C17_QuoteFrame ==
    [][Quoting' => (accounts' = accounts /\ ledgerPools' = ledgerPools)]_vars

\* C17 witness: a quote was answered with a successful simulation.
C17_Witness ==
    /\ Quoting /\ pc = "done" /\ resp.status = 200
    /\ calls[Len(calls)].op = "swapSimulation" /\ calls[Len(calls)].status = "Ok"
    /\ keypair = NoKeypair

\* A quote whose simulation returned a non-Ok status.
C17_WitnessFailed ==
    /\ Quoting /\ pc = "done" /\ resp.status = 400
    /\ calls # <<>> /\ calls[Len(calls)].op = "swapSimulation"
    /\ calls[Len(calls)].status \in NonOkStatuses

\* The request breaks one of the validation rules: amount <= 0, equal
\* symbols, slippage outside [0, 50].
BreaksValidationRule ==
    \/ req.amount <= 0
    \/ ToUpperCase(req.fromToken) = ToUpperCase(req.toToken)
    \/ SlippageOf(req) < 0
    \/ SlippageOf(req) > MaxSlippage

\* C18 (as claimed): a quote request that breaks a validation rule is
\* rejected and no simulate call is issued for it.  The code violates it:
\* POST /api/quote checks only that the three fields are present.
C18_QuoteValidation ==
    (Quoting /\ BreaksValidationRule) =>
        /\ \A k \in 1..Len(calls) : ~IsSimulate(calls[k])
        /\ pc = "done" => resp.status # 200

\* The symbols the registry lists.
RegisteredSymbols == {"ETH", "SOL", "USDT", "USDC", "WBTC", "WETH", "AVAX", "MATIC"}

\* What the registry holds for a symbol it lists.
IsRegisteredEntry(entry, sym) ==
    /\ entry.symbol = sym
    /\ entry.mint = CASE sym \in {"ETH", "SOL", "WETH"} -> NATIVE_MINT
                      [] sym = "USDT" -> USDT_MINT
                      [] sym = "USDC" -> USDC_MINT
                      [] sym = "WBTC" -> WBTC_MINT
                      [] sym = "AVAX" -> AVAX_MINT
                      [] sym = "MATIC" -> MATIC_MINT
    /\ entry.decimals = CASE sym \in {"USDT", "USDC"} -> 6
                          [] sym = "WBTC" -> 8
                          [] OTHER -> 9
    /\ entry.tokenProgram = IF sym \in {"ETH", "SOL", "WETH"}
                            THEN TOKEN_PROGRAM_ID ELSE TOKEN_2022_PROGRAM_ID

\* C19: getTokenInfo returns, for a symbol the registry lists (in upper or
\* lower case), the entry of that very symbol with its mint, decimals and
\* token program, so that ETH, SOL and WETH resolve to three entries of one
\* mint; for any other symbol it fails with token-not-supported.  The lookup
\* issues no call and changes neither the ledger nor the accounts.
C19_RegistryLookup ==
    pc # "getTokenInfo" =>
        LET from == ToUpperCase(req.fromToken)
            to == ToUpperCase(req.toToken)
        IN
        /\ IF from \in RegisteredSymbols /\ to \in RegisteredSymbols
           THEN /\ pc = "findBestPoolForPair" /\ resp = NoResp
                /\ IsRegisteredEntry(fromTokenInfo, from)
                /\ IsRegisteredEntry(toTokenInfo, to)
           ELSE /\ pc = "done"
                /\ resp = ErrorResponse(500, "Token not supported")
                /\ fromTokenInfo = NoToken /\ toTokenInfo = NoToken
        /\ calls = <<[rid |-> 1, op |-> "Market.build", ok |-> TRUE]>>
        /\ accounts = {} /\ rets = <<>> /\ logs = <<>>

\* C19 frame: the lookup leaves the ledger, the accounts and the call history
\* as they were.
C19_LookupFrame ==
    [][ledgerPools' = ledgerPools /\ accounts' = accounts /\ calls' = calls]_vars

\* C19 witness: SOL and WETH were resolved, to two entries of the same mint.
C19_Witness ==
    /\ pc = "findBestPoolForPair"
    /\ req.fromToken = "sol" /\ req.toToken = "WETH"
    /\ fromTokenInfo.symbol = "SOL" /\ toTokenInfo.symbol = "WETH"
    /\ fromTokenInfo.mint = toTokenInfo.mint
    /\ fromTokenInfo # toTokenInfo

\* An unregistered symbol was refused.
C19_WitnessUnknown ==
    /\ pc = "done" /\ req.fromToken = "USDT" /\ req.toToken = "XYZ"
    /\ resp = ErrorResponse(500, "Token not supported")

\* Request r's existence check of account a was answered: the account is absent.
FoundAbsentAt(k, r, a) ==
    /\ calls[k].rid = r /\ calls[k].op = "getAccount" /\ calls[k].address = a
    /\ calls[k].answered /\ ~calls[k].found

\* Request r submitted the creation of account a.
SubmittedCreateAt(k, r, a) ==
    calls[k].rid = r /\ calls[k].op = "createAccount" /\ calls[k].address = a

\* C20 (as claimed): two swap requests of one owner that both find an
\* account absent do not both submit its creation.  The code violates it:
\* the existence check and the creation are two awaits with nothing that
\* excludes the other request between them.
C20_OneCreatePerMissingAccount ==
    \A a \in AccountUniverse :
        ~ \E k1, k2, c1, c2 \in 1..Len(calls) :
              /\ FoundAbsentAt(k1, 1, a) /\ FoundAbsentAt(k2, 2, a)
              /\ SubmittedCreateAt(c1, 1, a) /\ SubmittedCreateAt(c2, 2, a)
              /\ k1 < c2 /\ k2 < c1

\* The keypair of the key request r carries.
KeypairOfRequest(r) == createKeypairFromPrivateKey(KeyOfRequest(r))

\* C21: with two swap requests of two owners in flight, in any interleaving
\* of their ledger calls, every execute call of a request is signed by the
\* key of that request and names its owner and the owner's token accounts,
\* every account check and creation of a request is for its own owner, and
\* the keypair a handler holds is the one made from its own request.
C21_OwnersIndependent ==
    /\ \A k \in 1..Len(calls) :
          LET own == KeypairOfRequest(calls[k].rid) IN
          /\ IsExecute(calls[k]) =>
                /\ calls[k].signer = own.secret
                /\ calls[k].owner = own.publicKey
                /\ calls[k].accountX[2] = own.publicKey
                /\ calls[k].accountY[2] = own.publicKey
          /\ IsProvisioning(calls[k]) =>
                /\ calls[k].address[2] = own.publicKey
                /\ calls[k].op = "createAccount" => calls[k].payer = own.publicKey
    /\ keypair \in {NoKeypair, KeypairOfRequest(self)}
    /\ parked.keypair \in {NoKeypair, KeypairOfRequest(3 - self)}

\* C21 witness: both requests executed, and a call of the second request
\* lies between two calls of the first.
C21_Witness ==
    /\ \A r \in {1, 2} :
          \E k \in 1..Len(calls) : IsExecute(calls[k]) /\ calls[k].rid = r /\ calls[k].ok
    /\ \E a, b, c \in 1..Len(calls) :
          a < b /\ b < c /\ calls[a].rid = 1 /\ calls[b].rid = 2 /\ calls[c].rid = 1

\* C22: the candidates of a swap request are worked on one after the other.
\* Every execute call directly follows the Ok simulation of its candidate,
\* and the simulation of candidate c + 1 is issued only when the calls of
\* candidate c have completed with a failure: its simulation was not Ok, or
\* its execution, issued after the simulation, threw.
C22_NoFanOut ==
    Swapping =>
        \A j \in 1..Len(calls) :
            /\ IsExecute(calls[j]) =>
                  /\ j > 1 /\ IsSimulate(calls[j - 1])
                  /\ calls[j - 1].cand = calls[j].cand
                  /\ calls[j - 1].status = "Ok"
            /\ IsSimulate(calls[j]) =>
                  IF calls[j].cand = 1
                  THEN \A k \in 1..(j - 1) : ~IsSimulate(calls[k]) /\ ~IsExecute(calls[k])
                  ELSE \/ /\ IsSimulate(calls[j - 1])
                          /\ calls[j - 1].cand = calls[j].cand - 1
                          /\ calls[j - 1].status # "Ok"
                       \/ /\ IsExecute(calls[j - 1])
                          /\ calls[j - 1].cand = calls[j].cand - 1
                          /\ ~calls[j - 1].ok

\* C22 witness: the first candidate failed in simulation, the second in
\* execution, and the third was simulated after both.
C22_Witness ==
    /\ Swapping /\ Len(calls) >= 4
    /\ \E j \in 4..Len(calls) :
          /\ IsSimulate(calls[j]) /\ calls[j].cand = 3
          /\ IsExecute(calls[j - 1]) /\ ~calls[j - 1].ok
          /\ IsSimulate(calls[j - 2]) /\ calls[j - 2].cand = 2
          /\ IsSimulate(calls[j - 3]) /\ calls[j - 3].status # "Ok"

\* The accounts ensureTokenAccounts found missing when it was called.
TraderMissing == TraderAccounts \ ata.before

\* C23: ensureTokenAccounts of swap.ts creates the accounts it needs in one
\* transaction: at every moment the existing accounts are those that existed
\* at the call, or those together with every account that was missing; when
\* the call has returned every account exists, and when the submission has
\* failed the accounts are unchanged and the error is thrown to the caller.
C23_BatchCreationAtomic ==
    (route = "swapSolToUsdt" /\ "before" \in DOMAIN ata)
    =>  /\ accounts \in {ata.before, ata.before \cup TraderMissing}
        /\ (rets # <<>> /\ ~rets[1].threw) =>
              /\ TraderAccounts \subseteq accounts
              /\ rets[1].value = [accountX |-> TraderAccount(SOL_MINT),
                                  accountY |-> TraderAccount(USDT_MINT)]
        /\ (rets # <<>> /\ rets[1].threw) =>
              /\ accounts = ata.before
              /\ pc = "trader:threw"
        /\ Cardinality({k \in 1..Len(calls) :
                          calls[k].op = "sendAndConfirmTransaction"}) <= 1

\* C23 witness: both accounts were missing, the transaction that creates
\* both was rejected, and none exists.
C23_Witness ==
    /\ pc = "trader:threw" /\ rets # <<>> /\ rets[1].threw
    /\ ata.before = {}
    /\ Len(calls[Len(calls)].instructions) = 2
    /\ accounts = {}

\* Both accounts were missing and both were created by one transaction.
C23_WitnessCreated ==
    /\ rets # <<>> /\ ~rets[1].threw /\ ata.before = {}
    /\ TraderAccounts \subseteq accounts

\* ----------------------------------------------------------------- C24
\* The call that directly precedes call k of the log is an Ok simulation of
\* the pool that call k executes on, issued for the same request.
SimulatedOkJustBefore(k) ==
    /\ k > 1
    /\ calls[k - 1].op = "swapSimulation"
    /\ calls[k - 1].rid = calls[k].rid
    /\ calls[k - 1].status = "Ok"
    /\ calls[k - 1].poolAddress = getAddress(calls[k].pair)

\* C24: in every swap routine, execute is called for a pool only after a
\* simulation of that same pool in the same attempt returned Ok, and the
\* price bound passed to execute is the price that simulation predicted.
\* swapSolToUsdt of swap.ts calls market.swap with no simulation at all and
\* with the fixed price bound 1.
C24_ExecuteOnlyAfterOkSimulation ==
    \A k \in 1..Len(calls) :
        calls[k].op = "market.swap" =>
            /\ SimulatedOkJustBefore(k)
            /\ calls[k].estimatedPriceAfterSwap = calls[k - 1].priceAfterSwap

\* ----------------------------------------------------------------- C25
\* C25: every pool address passed to simulate, and every pair passed to
\* execute, is derived from the fee and tick spacing of a pool the ledger's
\* enumeration returned for the token pair, never from a hard-coded fee
\* tier, so the simulated address resolves to an existing pool.
\* swapEthToUsdt simulates at the address of its own fee tier
\* { fee: 1000, tickSpacing: 1 } once any pool of the two tokens exists.
C25_AddressesFromEnumeratedPools ==
    \A k \in 1..Len(calls) :
        /\ calls[k].op = "swapSimulation" => calls[k].poolAddress \in LedgerAddresses
        /\ calls[k].op = "market.swap" => getAddress(calls[k].pair) \in LedgerAddresses

\* ----------------------------------------------------------------- C26
\* The fee of the pool at a derived pool address.
FeeAt(poolAddress) == poolAddress[3]

SamePairAt(a, b) == a[1] = b[1] /\ a[2] = b[2]

\* C26: smartSwapEthToUsdt attempts the pools of a token pair in
\* non-decreasing fee order: of two simulations of pools of one pair, the
\* earlier one is of a pool whose fee is not the higher one.
\* getPoolsForTokenPair only filters the enumeration, and the loop follows
\* the order in which the ledger enumerated the pools.
C26_NonDecreasingFeeOrder ==
    route = "smartSwapEthToUsdt" =>
        \A k1, k2 \in 1..Len(calls) :
            (/\ k1 < k2
             /\ calls[k1].op = "swapSimulation"
             /\ calls[k2].op = "swapSimulation"
             /\ SamePairAt(calls[k1].poolAddress, calls[k2].poolAddress))
            => FeeAt(calls[k1].poolAddress) <= FeeAt(calls[k2].poolAddress)

\* ----------------------------------------------------------------- C27
\* The candidates performTokenSwap attempts, in its order, for an ETH to USDT
\* request on the ledger of this state.
ServerCandidates == findBestPoolForPair(ledgerPools, ETH_MINT, USDT_MINT)

\* C27: on the same ledger, smartSwapEthToUsdt (for the pair ETH/USDT) and
\* performTokenSwap attempt the same pools in the same order with the same
\* direction flag: the k-th pool smartSwapEthToUsdt simulates for ETH/USDT is
\* the k-th candidate of performTokenSwap, with the flag the server computes.
\* The server sorts its candidates by fee; the app keeps the enumeration
\* order.
C27_SameAttemptsAsServer ==
    route = "smartSwapEthToUsdt" =>
        \A k \in 1..Len(calls) :
            (/\ calls[k].op = "swapSimulation"
             /\ SamePairAt(calls[k].poolAddress,
                           getAddress(Pair(ETH_MINT, USDT_MINT, EthToUsdtFeeTier))))
            => /\ calls[k].cand <= Len(ServerCandidates)
               /\ calls[k].poolAddress = PoolAddressOf(ServerCandidates[calls[k].cand])
               /\ calls[k].xToY =
                    XToY(Pair(ServerCandidates[calls[k].cand].tokenX,
                              ServerCandidates[calls[k].cand].tokenY,
                              FeeTierOf(ServerCandidates[calls[k].cand])), ETH_MINT)

\* ----------------------------------------------------------------- C28
\* The two tokens the routine was asked to swap between.
RequestedTokens == {fromTokenInfo.mint, toTokenInfo.mint}

C29_SameDirectionSimulatedAndExecuted ==
    \A k \in 1..Len(calls) :
        calls[k].op = "market.swap" =>
            /\ k > 1
            /\ calls[k - 1].op = "swapSimulation"
            /\ calls[k - 1].rid = calls[k].rid
            /\ calls[k - 1].cand = calls[k].cand
            /\ calls[k - 1].xToY = calls[k].xToY

\* swapEthToUsdt, whose simulation is passed the literal false, has executed.
C29_Witness ==
    /\ route = "swapEthToUsdt"
    /\ \E k \in 1..Len(calls) : calls[k].op = "market.swap" /\ calls[k].ok

\* performTokenSwap has executed on a candidate that is not the first, in
\* the direction Y to X.
C29_WitnessServer ==
    /\ route = "POST /api/swap"
    /\ \E k \in 1..Len(calls) :
          calls[k].op = "market.swap" /\ calls[k].cand > 1 /\ ~calls[k].xToY

\* ----------------------------------------------------------------- C30
\* Call k of the log is a failure of its candidate: a simulation that threw
\* or returned a status other than Ok, or an execution that threw.
FailedAt(k) ==
    \/ IsSimulate(calls[k]) /\ calls[k].status # "Ok"
    \/ IsExecute(calls[k]) /\ ~calls[k].ok

\* Candidate c was attempted and failed.
CandidateFailed(c) ==
    \E k \in 1..Len(calls) : FailedAt(k) /\ calls[k].cand = c

\* C30: performTokenSwap reports that all pools failed only after every
\* discovered candidate was attempted and failed; a failure of a candidate,
\* of whichever kind, is followed by the simulation of the next candidate, or
\* by the all-failed answer when it was the last one; and a request in which
\* a candidate was simulated Ok and executed succeeds on that candidate, all
\* candidates before it having failed.
C30_AllFailedOnlyAfterEveryCandidate ==
    Swapping =>
      /\ resp = AllFailedError =>
            /\ Len(pools) >= 1
            /\ \A c \in 1..Len(pools) : CandidateFailed(c)
      /\ \A k \in 1..Len(calls) :
            ((IsSimulate(calls[k]) \/ IsExecute(calls[k])) /\ FailedAt(k))
            => IF k < Len(calls)
               THEN /\ calls[k].cand < Len(pools)
                    /\ IsSimulate(calls[k + 1])
                    /\ calls[k + 1].cand = calls[k].cand + 1
               ELSE \/ AboutToTry(calls[k].cand + 1)
                    \/ calls[k].cand = Len(pools) /\ resp = AllFailedError
      /\ \A k \in 1..Len(calls) :
            (IsExecute(calls[k]) /\ calls[k].ok)
            => /\ resp.status = 200 /\ resp.success
               /\ resp.poolUsed.address = PoolAddressOf(pools[calls[k].cand])
               /\ \A c \in 1..(calls[k].cand - 1) : CandidateFailed(c)

\* C30 witness: three candidates were discovered and the all-failed answer
\* was given after a simulation that threw, a simulation with a status other
\* than Ok and an execution that threw, one for each candidate.
C30_Witness ==
    /\ Swapping /\ pc = "done" /\ resp = AllFailedError
    /\ Len(pools) = 3
    /\ \E k1, k2, k3 \in 1..Len(calls) :
          /\ IsSimulate(calls[k1]) /\ calls[k1].status = "throw"
          /\ IsSimulate(calls[k2]) /\ calls[k2].status \in NonOkStatuses
          /\ IsExecute(calls[k3]) /\ ~calls[k3].ok
          /\ calls[k1].cand # calls[k2].cand
          /\ calls[k2].cand # calls[k3].cand
          /\ calls[k1].cand # calls[k3].cand

\* The request succeeded on its third candidate after the first two failed.
C30_WitnessSucceeded ==
    /\ Swapping /\ resp.status = 200
    /\ IsExecute(calls[Len(calls)]) /\ calls[Len(calls)].cand = 3
    /\ CandidateFailed(1) /\ CandidateFailed(2)

\* ----------------------------------------------------------------- C31
\* The number of calls of an operation the request has issued.
NumCalls(op) == Cardinality({k \in 1..Len(calls) : calls[k].op = op})

\* The request was answered, with success or with a failure.
Answered ==
    /\ pc = "done"
    /\ \/ resp.status = 200 /\ resp.success
       \/ resp.status \in {400, 500} /\ ~resp.success

\* C31: provided every ledger call returns, a swap request is eventually
\* answered with success or failure, and it never issues more simulate calls
\* or more execute calls than the number of discovered candidates.
C31_TerminatesWithinN ==
    /\ <>Answered
    /\ [](/\ NumCalls("swapSimulation") <= Len(pools)
          /\ NumCalls("market.swap") <= Len(pools))

\* C31 witness: two candidates, each simulated and each executed, and the
\* request answered after the second execution failed.
C31_Witness ==
    /\ Answered
    /\ Len(pools) = 2
    /\ NumCalls("swapSimulation") = 2
    /\ NumCalls("market.swap") = 2

\* ----------------------------------------------------------------- C32
\* C32: for each candidate performTokenSwap and smartSwapEthToUsdt attempt,
\* the pool simulated and the pool executed against are the same: the
\* address given to the simulate call of the candidate is the address derived
\* from the tokenX, tokenY, fee and tick spacing of the pair given to its
\* execute call.
C32_SimulatedPoolIsExecutedPool ==
    route \in {"POST /api/swap", "smartSwapEthToUsdt"} =>
        \A k \in 1..Len(calls) :
            IsExecute(calls[k]) =>
                \E j \in 1..(k - 1) :
                    /\ IsSimulate(calls[j])
                    /\ calls[j].cand = calls[k].cand
                    /\ \A m \in (j + 1)..(k - 1) : ~IsSimulate(calls[m])
                    /\ calls[j].poolAddress =
                          <<calls[k].pair.tokenX, calls[k].pair.tokenY,
                            calls[k].pair.feeTier.fee, calls[k].pair.feeTier.tickSpacing>>

\* C32 witness: smartSwapEthToUsdt executed on a pool the ledger holds
\* without a tick spacing, whose pair has the tick spacing 1.
C32_Witness ==
    /\ route = "smartSwapEthToUsdt"
    /\ \E k \in 1..Len(calls) :
          /\ IsExecute(calls[k])
          /\ iter.pool.tickSpacing = 0
          /\ calls[k].pair.feeTier.tickSpacing = 1

\* ----------------------------------------------------------------- C33
\* The program variant of a token: that of its registry entry; a mint the
\* registry does not name (the wrapped SOL of swap.ts) is an SPL token.
TokenProgramOf(mint) ==
    IF \E sym \in DOMAIN TOKEN_REGISTRY : TOKEN_REGISTRY[sym].mint = mint
    THEN TOKEN_REGISTRY[CHOOSE sym \in DOMAIN TOKEN_REGISTRY :
                            TOKEN_REGISTRY[sym].mint = mint].tokenProgram
    ELSE TOKEN_PROGRAM_ID

\* The provisioner checked the existence of the address before call k, for
\* the same request.
EnsuredBefore(k, address) ==
    \E j \in 1..(k - 1) :
        /\ calls[j].op = "getAccount"
        /\ calls[j].rid = calls[k].rid
        /\ calls[j].address = address

\* C33: in every execute call accountX is the owner's token account of the
\* pair's canonical tokenX and accountY that of its tokenY, each derived with
\* the token's own program variant and each an address the provisioner
\* ensured.  swapSolToUsdt derives the USDT account with the default token
\* program although USDT is a Token-2022 token.
C33_AccountsOfCanonicalTokens ==
    \A k \in 1..Len(calls) :
        IsExecute(calls[k]) =>
            /\ calls[k].accountX =
                  getAssociatedTokenAddressSync(calls[k].pair.tokenX, calls[k].owner,
                                                TokenProgramOf(calls[k].pair.tokenX))
            /\ calls[k].accountY =
                  getAssociatedTokenAddressSync(calls[k].pair.tokenY, calls[k].owner,
                                                TokenProgramOf(calls[k].pair.tokenY))
            /\ EnsuredBefore(k, calls[k].accountX)
            /\ EnsuredBefore(k, calls[k].accountY)

\* ----------------------------------------------------------------- C34
\* C34: for a swap or quote request with a positive amount, the amount
\* passed to simulate and execute is the requested amount multiplied by
\* 10^decimals of the from-token, and is strictly positive.  Requested
\* amounts are held in tenths, hence the factor 10^decimals / 10.  new BN(amount) drops the fraction of the
\* requested amount before the multiplication: 0.5 becomes 0.
C34_AmountInSmallestUnits ==
    (route \in {"POST /api/swap", "POST /api/quote"} /\ req.amount > 0) =>
        \A k \in 1..Len(calls) :
            (IsSimulate(calls[k]) \/ IsExecute(calls[k])) =>
                /\ calls[k].amount = req.amount * (Pow10(fromTokenInfo.decimals) \div 10)
                /\ calls[k].amount > 0

\* ----------------------------------------------------------------- C35
\* The request ended in the no-pools-found failure.
EndedInNoPoolsFound ==
    /\ Swapping /\ pc = "done"
    /\ resp = ErrorResponse(500, "No liquidity pools found")

\* C35: a swap request that ends in no-pools-found has issued no account
\* existence check and no account creation, and it leaves the ledger
\* unchanged: its only ledger calls are the market construction and the pool
\* enumeration, and a step changes the accounts or the pools of the ledger
\* only by a submitted account creation, which is in the call log.
C35_NoPoolsNoProvisioning ==
    /\ [](EndedInNoPoolsFound =>
            /\ \A k \in 1..Len(calls) : calls[k].op \in {"Market.build", "getAllPools"}
            /\ rets = <<>>
            /\ ata = NoAta)
    /\ [][(accounts' # accounts \/ ledgerPools' # ledgerPools) =>
            /\ Len(calls') = Len(calls) + 1
            /\ calls'[Len(calls')].op = "createAccount"]_vars

\* C35 witness: the ledger has pools, none of the requested pair, the
\* owner's token accounts do not exist, and the request ended in
\* no-pools-found.
C35_Witness ==
    /\ EndedInNoPoolsFound
    /\ ledgerPools # <<>>
    /\ accounts = {}

\* ----------------------------------------------------------------- C36
\* The request names two different symbols of one mint.
SharesMint ==
    /\ Swapping
    /\ ToUpperCase(req.fromToken) # ToUpperCase(req.toToken)
    /\ getTokenInfo(req.fromToken) # NoToken
    /\ getTokenInfo(req.toToken) # NoToken
    /\ getTokenInfo(req.fromToken).mint = getTokenInfo(req.toToken).mint

\* C36: a swap request between two distinct symbols of one mint is not
\* rejected by the validation, and it never reaches a simulation, an
\* execution, an account check or an account creation; once the pool
\* enumeration has answered it ends in the no-pools-found failure, no pool of
\* the ledger having tokenX equal to tokenY.
C36_SharedMintEndsInNoPools ==
    SharesMint =>
        /\ resp.status # 400
        /\ \A k \in 1..Len(calls) : calls[k].op \in {"Market.build", "getAllPools"}
        /\ (\E k \in 1..Len(calls) : calls[k].op = "getAllPools" /\ calls[k].ok)
              => EndedInNoPoolsFound /\ pools = <<>>

\* C36 witness: ETH for SOL on a ledger with ETH/USDT pools ended in
\* no-pools-found.
C36_Witness ==
    /\ SharesMint /\ EndedInNoPoolsFound
    /\ req.fromToken = "ETH" /\ req.toToken = "SOL"
    /\ \E k \in 1..Len(ledgerPools) : ledgerPools[k].tokenY = NATIVE_MINT

\* ----------------------------------------------------------------- C37
\* The pool address a simulate or execute call is about.
AddressOfCall(c) == IF IsSimulate(c) THEN c.poolAddress ELSE getAddress(c.pair)

\* The address is that of a pool of the two tokens.
IsPoolOf(address, tokenA, tokenB) == {address[1], address[2]} = {tokenA, tokenB}

\* Every ETH/USDT pool of the ledger was attempted and failed before call k.
EveryEthUsdtPoolFailedBefore(k) ==
    \A a \in LedgerAddresses :
        IsPoolOf(a, ETH_MINT, USDT_MINT) =>
            \E j \in 1..(k - 1) : FailedAt(j) /\ AddressOfCall(calls[j]) = a

\* The pool listing for ETH/USDT, the first of the routine, failed before
\* call k.
EthUsdtDiscoveryFailedBefore(k) ==
    \E j \in 1..(k - 1) :
        /\ calls[j].op = "getAllPools" /\ ~calls[j].ok
        /\ \A m \in 1..(j - 1) : calls[m].op # "getAllPools"

\* C37: smartSwapEthToUsdt tries ETH/USDT before ETH/USDC: a pool of ETH/USDC
\* is attempted only if ETH/USDT has no pools, its discovery failed, or every
\* ETH/USDT pool failed; over both pairs at most one execution succeeds, and
\* it is the last call of the routine.
C37_PairsInFixedOrder ==
    route = "smartSwapEthToUsdt" =>
        /\ \A k \in 1..Len(calls) :
              (IsSimulate(calls[k]) /\ IsPoolOf(calls[k].poolAddress, ETH_MINT, USDC_MINT))
              => (EveryEthUsdtPoolFailedBefore(k) \/ EthUsdtDiscoveryFailedBefore(k))
        /\ \A k \in 1..Len(calls) :
              (IsExecute(calls[k]) /\ calls[k].ok) => (k = Len(calls) /\ pc = "done")

\* C37 witness: an ETH/USDT pool failed and the routine then executed on an
\* ETH/USDC pool.
C37_Witness ==
    /\ route = "smartSwapEthToUsdt" /\ pc = "done"
    /\ IsExecute(calls[Len(calls)]) /\ calls[Len(calls)].ok
    /\ IsPoolOf(getAddress(calls[Len(calls)].pair), ETH_MINT, USDC_MINT)
    /\ \E j \in 1..Len(calls) :
          FailedAt(j) /\ IsPoolOf(AddressOfCall(calls[j]), ETH_MINT, USDT_MINT)

\* ----------------------------------------------------------------- C38
\* C38: in smartSwapEthToUsdt the swap amount is floor(balance * 40 / 100)
\* of the wrapped balance read at the start and never exceeds that balance;
\* when it is 0 the routine returns after the balance read, with no pool
\* listing, simulate or execute call, so every amount passed to the ledger
\* is positive.
C38_FortyPercentNeverZero ==
    (route = "smartSwapEthToUsdt" /\ Len(calls) >= 1) =>
        /\ calls[1].op = "getAccount"
        /\ swapAmount * 100 <= calls[1].balance * 40
        /\ calls[1].balance * 40 < (swapAmount + 1) * 100
        /\ swapAmount <= calls[1].balance
        /\ swapAmount = 0 => (pc = "returned" /\ Len(calls) = 1)
        /\ \A k \in 2..Len(calls) :
              /\ calls[k].op \in {"getAllPools", "swapSimulation", "market.swap"}
              /\ (IsSimulate(calls[k]) \/ IsExecute(calls[k])) =>
                    (calls[k].amount = swapAmount /\ calls[k].amount > 0)

\* C38 witness: the wrapped balance is positive, 40% of it is below one
\* lamport, and the routine returned.
C38_Witness ==
    /\ route = "smartSwapEthToUsdt" /\ pc = "returned"
    /\ Len(calls) = 1
    /\ calls[1].balance > 0
    /\ swapAmount = 0

\* A positive amount was simulated and executed.
C38_WitnessSwapped ==
    /\ route = "smartSwapEthToUsdt" /\ pc = "done"
    /\ calls[1].balance = 5
    /\ calls[Len(calls)].amount = 2

\* ----------------------------------------------------------------- C39
Wrapping == route = "POST /api/wrap-sol"

\* The balance read of the request found at least lamportsToWrap + 5000.
BalanceSufficesBefore(k) ==
    \E j \in 1..(k - 1) :
        /\ calls[j].op = "getBalance" /\ calls[j].ok
        /\ calls[j].balance >= LamportsToWrap(req.amount) + 5000

\* The wrapped-token account was observed absent before call k.
ObservedAbsentBefore(k) ==
    \E j \in 1..(k - 1) : calls[j].op = "getAccount" /\ ~calls[j].found

\* C39: POST /api/wrap-sol submits a transaction only when the owner's
\* native balance is at least lamportsToWrap + 5000; a request rejected for
\* its balance has submitted nothing.  A submitted transaction holds an
\* account-creation instruction exactly when the wrapped-token account was
\* observed absent, then the transfer of lamportsToWrap and the sync.
C39_WrapSolSubmission ==
    Wrapping =>
        /\ \A k \in 1..Len(calls) :
              calls[k].op = "sendAndConfirmTransaction" =>
                 LET ins == calls[k].instructions
                     n == Len(ins)
                 IN /\ BalanceSufficesBefore(k)
                    /\ n \in {2, 3}
                    /\ (n = 3) <=> ObservedAbsentBefore(k)
                    /\ n = 3 => ins[1].kind = "createAssociatedTokenAccount"
                    /\ ins[n - 1].kind = "transfer"
                    /\ ins[n - 1].lamports = LamportsToWrap(req.amount)
                    /\ ins[n].kind = "syncNative"
        /\ (resp.status = 400) =>
              \A k \in 1..Len(calls) : calls[k].op \in {"getBalance"}

\* C39 witness: the account was absent and the transaction that creates it
\* and wraps 0.5 SOL was applied with a balance of exactly
\* lamportsToWrap + 5000.
C39_Witness ==
    /\ Wrapping /\ resp.status = 200
    /\ Len(calls[Len(calls)].instructions) = 3
    /\ calls[1].balance = 500005000
    /\ ata.address \in accounts

\* A request was rejected for a balance one lamport short.
C39_WitnessRejected ==
    /\ Wrapping /\ resp.status = 400
    /\ Len(calls) = 1 /\ calls[1].balance = 500004999
    /\ req.amount = 5

\* The account was observed present and the transaction held no creation.
C39_WitnessNoCreation ==
    /\ Wrapping /\ resp.status = 200
    /\ Len(calls[Len(calls)].instructions) = 2

====
